---- MODULE Spec2Model ----
(***************************************************************************)
(* A model of src/src/cpp/ParticularMatter_public.cpp: the EEPROM-backed   *)
(* configuration record, the captive-portal handlers that change it, the   *)
(* PMS5003 frame decoder, the two connection supervisors (Wi-Fi join and   *)
(* MQTT broker) and the publish gate, in both builds of ENABLE_NETWORK.    *)
(*                                                                         *)
(* Conventions.                                                            *)
(*  - A char[] field is modelled by the C string it holds (the characters  *)
(*    before the first NUL), as a sequence of one-character strings.       *)
(*  - millis() is the variable now, a uint32_t. TLC's integers end at      *)
(*    2^31 - 1, so every time (now, the last-attempt stamps, the backoffs, *)
(*    ts_ms) is held in units of 8 ms, which divide every interval of the  *)
(*    code (5000, 8000, 15000, 20000, 60000 ms); Ms(x) is x milliseconds   *)
(*    in that unit and 2^32 ms is Wrap = 2^29 units. Subtractions of two   *)
(*    timestamps are taken modulo Wrap, as the code's uint32_t arithmetic. *)
(*  - loop() is followed step by step: pc is the position of the single    *)
(*    thread of control (setup, the HTTP dispatch, and the four calls of   *)
(*    loop()); the environment (time, the Wi-Fi link, the broker link, the *)
(*    sensor's bytes) acts between the steps.                              *)
(*  - The Arduino libraries are modelled by their documented behaviour at  *)
(*    the places the source calls them.                                    *)
(***************************************************************************)
EXTENDS Integers, Sequences, FiniteSets, TLC

VARIABLES
    enableNetwork,        \* the build flag ENABLE_NETWORK (0 or 1), fixed per run
    pc,                   \* position of the thread of control
    now,                  \* millis()
    config,               \* ESPConfig config (the in-memory record)
    eeprom,               \* the EEPROM library's RAM copy and its dirty flag
    flash,                \* the committed (persisted) image
    wifiMode,             \* WiFi.mode
    wifiStatus,           \* WiFi.status()
    staConfigured,        \* WiFi.begin() has given the station an SSID to join
    lastStaAttempt,       \* static uint32_t lastStaAttempt
    staBackoffMs,         \* static uint32_t staBackoffMs
    mqttConnected,        \* mqttClient.connected()
    lastMqttConnAttempt,  \* uint32_t lastMqttConnAttempt
    mqttBackoffMs,        \* uint32_t mqttBackoffMs
    lastMqttPub,          \* static uint32_t lastMqttPub of mqttMaybePublish
    g_pms,                \* PMSData g_pms
    rx,                   \* bytes of the sensor link not yet read
    out,                  \* what the last step did that the outside can see
    hist                  \* history kept for the properties (not program state)

vars == << enableNetwork, pc, now, config, eeprom, flash, wifiMode, wifiStatus,
           staConfigured, lastStaAttempt, staBackoffMs, mqttConnected,
           lastMqttConnAttempt, mqttBackoffMs, lastMqttPub, g_pms, rx, out, hist >>

(***************************************************************************)
(* Bounds of the exploration.                                              *)
(***************************************************************************)
\* Time advances in steps of 5000 ms and stops after MaxTicks of them (the
\* long runs of the supervisors: 400 s, past the sum 5 + 10 + ... + 60 s).
MaxTicks == 80
\* The steps of 5000 ms in the short scenarios (two publish intervals).
ShortTicks == 9
\* HTTP requests served in one run.
MaxReq == 2
LiveTicks == 100
MaxText == 5
MaxField == 4
MaxPrefix == 4
WrapLead == 13
WrapTicks == 26
CredTicks == 3

(***************************************************************************)
(* Arithmetic of the C types.                                              *)
(***************************************************************************)
\* 2^32 milliseconds, in units of 8 ms: where a uint32_t time wraps.
Wrap == 2^29
\* x milliseconds in units of 8 ms.
Ms(x) == x \div 8
U16 == 65536

Min(a, b) == IF a < b THEN a ELSE b

\* A difference that is taken as 0 when the clock reads less than before.
Sub32_Saturating(a, b) == IF a < b THEN 0 ELSE a - b

\* uint32_t a - b
Sub32(a, b) == (a - b + Wrap) % Wrap

(***************************************************************************)
(* The configuration record.                                               *)
(***************************************************************************)
\* The code's literal 0xEDUC0DE1 is no valid hexadecimal number; the model
\* needs only that the tag is a fixed non-zero 32-bit word (0xEDC0DE1 here).
CONFIG_MAGIC == 249302497
MAX_LEN == 64
UUID_LEN == 37

\* A flash sector after an erase reads 0xFF in every byte: the tag reads
\* 0xFFFFFFFF, written here as the int32_t of the same bits.
ERASED_WORD == -1

\* memset(&config, 0, sizeof(config))
ZeroConfig ==
    [ magic |-> 0,
      wifi_ssid |-> << >>, wifi_pass |-> << >>, user_email |-> << >>,
      device_name |-> << >>, one_time_key |-> << >>,
      node_id |-> << >>, mqtt_host |-> << >>, mqtt_port |-> 0,
      mqtt_username |-> << >>, mqtt_password |-> << >>,
      first_sensor_id |-> << >>, first_sensor_sn |-> << >>,
      registration_ok |-> 0 ]

\* An erased sector: the tag reads 0xFFFFFFFF. The text fields of such an
\* image are never read as text (loadConfig zeroes the record first).
ErasedImage == [ZeroConfig EXCEPT !.magic = ERASED_WORD]

haveWifiCreds(c) == c.wifi_ssid # << >> /\ c.wifi_pass # << >>

haveMqttCreds(c) ==
    /\ c.registration_ok = 1
    /\ c.node_id # << >>
    /\ c.mqtt_host # << >>
    /\ c.mqtt_port # 0
    /\ c.mqtt_username # << >>
    /\ c.mqtt_password # << >>

\* copyString(src, dst, dstSize): the C string left in dst.
copyString(src, dstSize) ==
    LET n == IF Len(src) >= dstSize THEN dstSize - 1 ELSE Len(src)
    IN  SubSeq(src, 1, n)

\* A copy that clamps to the whole field and puts the terminator after it.
copyStringBytes_ClampsToSize(src, mem, dst, dstSize) ==
    LET n == IF Len(src) >= dstSize THEN dstSize ELSE Len(src)
    IN  [i \in 1..Len(mem) |->
            IF dst <= i /\ i < dst + n THEN src[i - dst + 1]
            ELSE IF i = dst + n THEN 0
            ELSE mem[i]]

\* copyString(src, dst, dstSize) byte by byte: memory mem (a sequence of
\* bytes, dst the index of the field's first byte) after memcpy(dst,
\* src.c_str(), n) and dst[n] = 0.
copyStringBytes(src, mem, dst, dstSize) ==
    LET n == IF Len(src) >= dstSize THEN dstSize - 1 ELSE Len(src)
    IN  [i \in 1..Len(mem) |->
            IF dst <= i /\ i < dst + n THEN src[i - dst + 1]
            ELSE IF i = dst + n THEN 0
            ELSE mem[i]]

\* The C string at the head of the bytes b: what precedes the first 0 (all
\* of b if there is none).
RECURSIVE CStr(_)
CStr(b) == IF b = << >> \/ Head(b) = 0 THEN << >> ELSE << Head(b) >> \o CStr(Tail(b))

(***************************************************************************)
(* The EEPROM library (ESP8266 core): put() writes the RAM copy and marks  *)
(* it dirty when it changes; commit() erases and rewrites the sector when  *)
(* dirty; begin() reads the sector into the RAM copy.                      *)
(***************************************************************************)
CommitOutcomes == {"ok", "erase_failed", "write_failed"}

EEPROM_begin(fl) == [data |-> fl, dirty |-> FALSE]

EEPROM_put(ee, c) == IF ee.data # c THEN [data |-> c, dirty |-> TRUE] ELSE ee

\* The result of commit(): its return value, the library state, the sector.
EEPROM_commit(ee, fl, outcome) ==
    IF ~ee.dirty THEN [ok |-> TRUE, ee |-> ee, flash |-> fl]
    ELSE IF outcome = "ok"
         THEN [ok |-> TRUE, ee |-> [ee EXCEPT !.dirty = FALSE], flash |-> ee.data]
    ELSE IF outcome = "erase_failed"
         THEN [ok |-> FALSE, ee |-> ee, flash |-> fl]
    ELSE [ok |-> FALSE, ee |-> ee, flash |-> ErasedImage]

\* A load that keeps the fields of an image it does not recognise.
loadConfig_KeepsFields(fl, outcome) ==
    LET ee0 == EEPROM_begin(fl)
        got == ee0.data
    IN  IF got.magic # CONFIG_MAGIC
        THEN LET c  == [got EXCEPT !.magic = CONFIG_MAGIC]
                 r  == EEPROM_commit(EEPROM_put(ee0, c), fl, outcome)
             IN  [config |-> c, ee |-> r.ee, flash |-> r.flash, ok |-> r.ok]
        ELSE [config |-> got, ee |-> ee0, flash |-> fl, ok |-> TRUE]

\* loadConfig(): the record, the library state and the sector it leaves (and
\* what its commit returned, which the code ignores).
loadConfig(fl, outcome) ==
    LET ee0 == EEPROM_begin(fl)
        got == ee0.data
    IN  IF got.magic # CONFIG_MAGIC
        THEN LET c  == [ZeroConfig EXCEPT !.magic = CONFIG_MAGIC]
                 r  == EEPROM_commit(EEPROM_put(ee0, c), fl, outcome)
             IN  [config |-> c, ee |-> r.ee, flash |-> r.flash, ok |-> r.ok]
        ELSE [config |-> got, ee |-> ee0, flash |-> fl, ok |-> TRUE]

\* A save that falls back to the stored record when its commit fails.
saveConfig_ReloadsOnFailure(c, ee, fl, outcome) ==
    LET c1 == [c EXCEPT !.magic = CONFIG_MAGIC]
        r  == EEPROM_commit(EEPROM_put(ee, c1), fl, outcome)
    IN  [config |-> IF r.ok THEN c1 ELSE r.flash, ee |-> r.ee,
         flash |-> r.flash, ok |-> r.ok]

\* saveConfig()
saveConfig(c, ee, fl, outcome) ==
    LET c1 == [c EXCEPT !.magic = CONFIG_MAGIC]
        r  == EEPROM_commit(EEPROM_put(ee, c1), fl, outcome)
    IN  [config |-> c1, ee |-> r.ee, flash |-> r.flash, ok |-> r.ok]

\* A clear that leaves the stored record in place.
clearConfig_KeepsRecord(ee, fl, outcome) ==
    [config |-> ZeroConfig, ee |-> ee, flash |-> fl, ok |-> TRUE]

\* clearConfig()
clearConfig(ee, fl, outcome) ==
    LET r == EEPROM_commit(EEPROM_put(ee, ZeroConfig), fl, outcome)
    IN  [config |-> ZeroConfig, ee |-> r.ee, flash |-> r.flash, ok |-> r.ok]

(***************************************************************************)
(* The Wi-Fi station.                                                      *)
(***************************************************************************)
JoinOutcomes == {"connected", "timeout"}

\* A station join that drops the access point.
WIFI_AP_STA_StationOnly == "WIFI_STA"

\* WiFi.mode(WIFI_AP_STA): the mode connectSTA and ensureStaConnected select.
WIFI_AP_STA == "WIFI_AP_STA"

\* connectSTA(timeoutMs): join is what the access point does during the wait.
\* A join that succeeds is seen after 5000 ms of the 250 ms polls; one that
\* does not holds the caller for the whole timeout.
connectSTA(c, t, mode, status, configured, timeoutMs, join) ==
    IF ~haveWifiCreds(c)
    THEN [ok |-> FALSE, now |-> t, mode |-> mode, status |-> status,
          configured |-> configured]
    ELSE IF join = "connected" /\ 5000 < timeoutMs
    THEN [ok |-> TRUE, now |-> (t + Ms(5000)) % Wrap, mode |-> WIFI_AP_STA,
          status |-> "WL_CONNECTED", configured |-> TRUE]
    ELSE [ok |-> FALSE, now |-> (t + Ms(timeoutMs)) % Wrap, mode |-> WIFI_AP_STA,
          status |-> "WL_DISCONNECTED", configured |-> TRUE]

\* A station backoff that grows without its 60000 ms ceiling.
staNextBackoff_NoCeiling(b) == (b + Ms(5000)) % Wrap

\* The backoff that follows one more attempt of the station ("5s,10s,...60s").
staNextBackoff(b) ==
    IF (b + Ms(5000)) % Wrap > Ms(60000) THEN Ms(60000) ELSE (b + Ms(5000)) % Wrap

\* A station supervisor that does not wait for its backoff.
staAttemptDue_IgnoresBackoff(c, status, t, last, backoff) ==
    ~(~haveWifiCreds(c) \/ status = "WL_CONNECTED")

\* A station supervisor that stops trying once its backoff is at the ceiling.
staAttemptDue_GivesUp(c, status, t, last, backoff) ==
    /\ ~(~haveWifiCreds(c) \/ status = "WL_CONNECTED")
    /\ ~(Sub32(t, last) < backoff)
    /\ backoff < Ms(60000)

\* Whether ensureStaConnected() starts an attempt.
staAttemptDue(c, status, t, last, backoff) ==
    /\ ~(~haveWifiCreds(c) \/ status = "WL_CONNECTED")
    /\ ~(Sub32(t, last) < backoff)

\* ensureStaConnected(): whether it called WiFi.begin(), and the statics.
ensureStaConnected(c, status, t, last, backoff) ==
    IF staAttemptDue(c, status, t, last, backoff)
    THEN [attempt |-> TRUE, last |-> t, backoff |-> staNextBackoff(backoff)]
    ELSE [attempt |-> FALSE, last |-> last, backoff |-> backoff]

(***************************************************************************)
(* Registration.                                                           *)
(***************************************************************************)
StubNodeId ==
    << "0","0","0","0","0","0","0","0","-","0","0","0","0","-","0","0","0","0",
       "-","0","0","0","0","-","0","0","0","0","0","0","0","0","0","0","0","1" >>
StubMqttHost ==
    << "m","q","t","t",".","e","x","a","m","p","l","e",".","l","o","c","a","l" >>
StubMqttUser == << "d","e","m","o","-","u","s","e","r" >>
StubMqttPass == << "d","e","m","o","-","p","a","s","s" >>
StubSensorId ==
    << "0","0","0","0","0","0","0","0","-","0","0","0","0","-","0","0","0","0",
       "-","0","0","0","0","-","0","0","0","0","0","0","0","0","S","E","N","S" >>
StubSensorSn == << "P","M","S","5","0","0","3","-","E","D","U" >>

\* The fields the stubbed backend "replies" with (ENABLE_NETWORK = 0).
stubRegistrationFields(c) ==
    [c EXCEPT !.node_id = copyString(StubNodeId, UUID_LEN),
              !.mqtt_host = copyString(StubMqttHost, MAX_LEN),
              !.mqtt_port = 1883,
              !.mqtt_username = copyString(StubMqttUser, MAX_LEN),
              !.mqtt_password = copyString(StubMqttPass, MAX_LEN),
              !.first_sensor_id = copyString(StubSensorId, UUID_LEN),
              !.first_sensor_sn = copyString(StubSensorSn, MAX_LEN)]

\* performRegistration(): its return value and everything it changes (and
\* what the commit of its saveConfig returned, which the code ignores).
performRegistration(net, c, ee, fl, t, mode, status, configured, join, outcome) ==
    LET same == [ok |-> FALSE, issued |-> FALSE, config |-> c, ee |-> ee,
                 flash |-> fl, now |-> t, mode |-> mode, status |-> status,
                 configured |-> configured, commitOk |-> TRUE]
    IN  IF Len(c.one_time_key) = 0 THEN same
        ELSE IF net = 1
        THEN LET j == connectSTA(c, t, mode, status, configured, 15000, join)
             IN  IF ~j.ok
                 THEN [same EXCEPT !.issued = TRUE, !.now = j.now, !.mode = j.mode,
                                   !.status = j.status, !.configured = j.configured]
                 ELSE LET s == saveConfig([c EXCEPT !.registration_ok = 1],
                                          ee, fl, outcome)
                      IN  [ok |-> TRUE, issued |-> TRUE, config |-> s.config,
                           ee |-> s.ee, flash |-> s.flash, now |-> j.now,
                           mode |-> j.mode, status |-> j.status,
                           configured |-> j.configured, commitOk |-> s.ok]
        ELSE LET s == saveConfig([stubRegistrationFields(c) EXCEPT
                                     !.registration_ok = 1], ee, fl, outcome)
             IN  [same EXCEPT !.ok = TRUE, !.issued = TRUE, !.config = s.config,
                              !.ee = s.ee, !.flash = s.flash, !.commitOk = s.ok]

(***************************************************************************)
(* The PMS5003 decoder. The stream s holds the bytes the sensor link       *)
(* delivers during the call; the end of s is a wait that times out.        *)
(***************************************************************************)
\* PMSData's default member initialisers.
DefaultPMS ==
    [ pm1_cf1 |-> 0, pm25_cf1 |-> 0, pm10_cf1 |-> 0,
      pm1_atm |-> 0, pm25_atm |-> 0, pm10_atm |-> 0,
      ts_ms |-> 0, valid |-> FALSE ]

\* The header scan of readPMS5003Frame from byte i of s in scan state st:
\* whether 0x42 0x4D was matched, and the next byte to read.
RECURSIVE seekHeader(_, _, _)
seekHeader(s, i, st) ==
    IF i > Len(s) THEN [found |-> FALSE, next |-> i]
    ELSE IF st = 0 /\ s[i] = 66 THEN seekHeader(s, i + 1, 1)
    ELSE IF st = 1 /\ s[i] = 77 THEN [found |-> TRUE, next |-> i + 1]
    ELSE seekHeader(s, i + 1, 0)

\* pmsReadN(buf, n): the n bytes from byte i of s, or a timeout that has
\* consumed what there was.
pmsReadN(s, i, n) ==
    IF Len(s) - i + 1 >= n
    THEN [ok |-> TRUE, buf |-> SubSeq(s, i, i + n - 1), next |-> i + n]
    ELSE [ok |-> FALSE, buf |-> << >>, next |-> Len(s) + 1]

\* uint16_t sum += data[i] for the first k bytes of data.
RECURSIVE sumBytes(_, _, _)
sumBytes(acc, data, k) ==
    IF k = 0 THEN acc ELSE (sumBytes(acc, data, k - 1) + data[k]) % U16

\* A word read low byte first.
wordAt_LittleEndian(data, idx) ==
    (data[2 * idx + 2] * 256 + data[2 * idx + 1]) % U16

\* wordAt(idx) over data (data[0] of the code is data[1] here).
wordAt(data, idx) == (data[2 * idx + 1] * 256 + data[2 * idx + 2]) % U16

\* A checksum comparison that looks at the low byte only.
checksumOk_LowByteOnly(lenb, data, frameLen) ==
    sumBytes((66 + 77 + lenb[1] + lenb[2]) % U16, data, frameLen - 2) % 256
        = data[frameLen]

\* The checksum comparison of readPMS5003Frame (sum != chk rejects).
checksumOk(lenb, data, frameLen) ==
    LET sum == sumBytes((66 + 77 + lenb[1] + lenb[2]) % U16, data, frameLen - 2)
        chk == (data[frameLen - 1] * 256 + data[frameLen]) % U16
    IN  sum = chk

\* A length test whose lower bound is one too low.
frameLenOk_From27(frameLen) == ~(frameLen < 27 \/ frameLen > 64)

\* The length test of readPMS5003Frame.
frameLenOk(frameLen) == ~(frameLen < 28 \/ frameLen > 64)

\* uint8_t data[64]; if (frameLen > sizeof(data)) return false;
DATA_SIZE == 64
fitsData(frameLen) == ~(frameLen > DATA_SIZE)

\* The indexes of data[] that pmsReadN(data, frameLen) writes when got bytes
\* arrive, that the checksum loop and the two checksum bytes read, and that
\* the six wordAt calls read.
readIndexes(got) == 0..(got - 1)
checksumIndexes(frameLen) == (0..(frameLen - 3)) \cup {frameLen - 2, frameLen - 1}
wordIndexes == UNION { {2 * idx, 2 * idx + 1} : idx \in 0..5 }

\* readPMS5003Frame(out) called at time t: its return value, the sample it
\* leaves in out (a default-constructed PMSData on entry), the unread bytes;
\* and, for the properties, which return statement was taken (why), the
\* byte after the header it matched (hdr, 0 when it matched none) and the
\* indexes of data[] it wrote or read (touched).
readPMS5003Frame(s, t) ==
    LET h    == seekHeader(s, 1, 0)
        hdr  == IF h.found THEN h.next ELSE 0
        noneAt(n, why, touched) ==
            [ok |-> FALSE, out |-> DefaultPMS, rest |-> SubSeq(s, n, Len(s)),
             why |-> why, hdr |-> hdr, touched |-> touched]
        none(n, why) == noneAt(n, why, {})
    IN  IF ~h.found THEN none(h.next, "marker_timeout")
        ELSE LET l == pmsReadN(s, h.next, 2)
             IN  IF ~l.ok THEN none(l.next, "length_timeout")
                 ELSE LET frameLen == (l.buf[1] * 256 + l.buf[2]) % U16
                      IN  IF ~frameLenOk(frameLen) THEN none(l.next, "length_bounds")
                          ELSE IF ~fitsData(frameLen) THEN none(l.next, "data_size")
                          ELSE LET d == pmsReadN(s, l.next, frameLen)
                               IN  IF ~d.ok
                                   THEN noneAt(d.next, "body_timeout",
                                               readIndexes(Len(s) - l.next + 1))
                                   ELSE IF ~checksumOk(l.buf, d.buf, frameLen)
                                   THEN noneAt(d.next, "checksum",
                                               readIndexes(frameLen)
                                               \cup checksumIndexes(frameLen))
                                   ELSE [ok |-> TRUE, why |-> "ok", hdr |-> hdr,
                                         touched |-> readIndexes(frameLen)
                                                     \cup checksumIndexes(frameLen)
                                                     \cup wordIndexes,
                                         out |-> [ pm1_cf1  |-> wordAt(d.buf, 0),
                                                   pm25_cf1 |-> wordAt(d.buf, 1),
                                                   pm10_cf1 |-> wordAt(d.buf, 2),
                                                   pm1_atm  |-> wordAt(d.buf, 3),
                                                   pm25_atm |-> wordAt(d.buf, 4),
                                                   pm10_atm |-> wordAt(d.buf, 5),
                                                   ts_ms    |-> t,
                                                   valid    |-> TRUE ],
                                         rest |-> SubSeq(s, d.next, Len(s))]

\* A poll that stores whatever the decoder left in tmp.
pollPMS5003_StoresAlways(g, r) == r.out

\* A poll that keeps the first valid sample it got.
pollPMS5003_KeepsFirst(g, r) == IF r.ok /\ ~g.valid THEN r.out ELSE g

\* pollPMS5003(): the sample g_pms holds afterwards, given the decoder's result.
pollPMS5003(g, r) == IF r.ok THEN r.out ELSE g

(***************************************************************************)
(* The broker supervisor and the publish gate.                             *)
(***************************************************************************)
\* A broker supervisor that does not look at the credentials.
mqttAttemptDue_SkipsCreds(net, c, connected, t, last, backoff) ==
    /\ net = 1
    /\ ~connected
    /\ ~(Sub32(t, last) < backoff)

\* Whether mqttEnsureConnected() calls mqttClient.connect().
mqttAttemptDue(net, c, connected, t, last, backoff) ==
    /\ net = 1
    /\ haveMqttCreds(c)
    /\ ~connected
    /\ ~(Sub32(t, last) < backoff)

\* A broker backoff that doubles up to the ceiling.
mqttNextBackoff_Doubles(b) == IF b = 0 THEN Ms(5000) ELSE Min((2 * b) % Wrap, Ms(60000))

\* The backoff after a failed connect: min<uint32_t>(mqttBackoffMs + 5000, 60000).
mqttNextBackoff(b) == Min((b + Ms(5000)) % Wrap, Ms(60000))

\* mqttEnsureConnected(): ok is what mqttClient.connect() returns if called.
mqttEnsureConnected(net, c, connected, t, last, backoff, ok) ==
    IF mqttAttemptDue(net, c, connected, t, last, backoff)
    THEN [attempt |-> TRUE, connected |-> ok, last |-> t,
          backoff |-> IF ok THEN 0 ELSE mqttNextBackoff(backoff)]
    ELSE [attempt |-> FALSE, connected |-> connected, last |-> last,
          backoff |-> backoff]

\* A publish gate that lets a sample through once: only one decoded after
\* the last publish.
publishDue_OnlyFreshSample(net, c, connected, g, t, lastPub) ==
    IF net = 1
    THEN /\ ~(~haveMqttCreds(c) \/ ~connected \/ ~g.valid)
         /\ ~(Sub32(t, lastPub) < Ms(20000))
         /\ (lastPub = 0 \/ g.ts_ms > lastPub)
    ELSE ~(~g.valid \/ c.registration_ok = 0)

\* A publish gate that does not look at the sample's valid flag.
publishDue_IgnoresValid(net, c, connected, g, t, lastPub) ==
    IF net = 1
    THEN /\ ~(~haveMqttCreds(c) \/ ~connected)
         /\ ~(Sub32(t, lastPub) < Ms(20000))
    ELSE ~(c.registration_ok = 0)

\* Whether mqttMaybePublish() emits (publishes, or prints in the stubbed build).
publishDue(net, c, connected, g, t, lastPub) ==
    IF net = 1
    THEN /\ ~(~haveMqttCreds(c) \/ ~connected \/ ~g.valid)
         /\ ~(Sub32(t, lastPub) < Ms(20000))
    ELSE ~(~g.valid \/ c.registration_ok = 0)

\* What is emitted: makeMeasurementPayload(pm1_atm, pm25_atm, pm10_atm). The
\* uint16_t readings convert to float exactly and print with one decimal, so
\* the payload is given by the three integers.
publishPayload(g) == << g.pm1_atm, g.pm25_atm, g.pm10_atm >>

\* mqttTopic(): "measurements/" node_id "/" first_sensor_id
mqttTopic(c) == << c.node_id, c.first_sensor_id >>

(***************************************************************************)
(* What the captive portal's form can send. A form argument is << >> when  *)
(* the request does not carry it (server.hasArg is false) and << v >> when *)
(* it carries the text v.                                                  *)
(***************************************************************************)
Ssid1  == << "h", "o", "m", "e" >>
Pass1  == << "p", "w" >>
Email1 == << "a", "@", "b" >>
Name1  == << "n", "o", "d", "e" >>
Key1   == << "k", "e", "y" >>

\* The network pair, the owner pair and the key are each left out, sent
\* empty or sent filled in.
FormInputs ==
    { [ wifi_ssid |-> w[1], wifi_pass |-> w[2], user_email |-> u[1],
        device_name |-> u[2], one_time_key |-> k ] :
      w \in { << << >>, << >> >>, << << << >> >>, << << >> >> >>,
              << << Ssid1 >>, << Pass1 >> >>, << << Ssid1 >>, << << >> >> >> },
      u \in { << << >>, << >> >>, << << Email1 >>, << Name1 >> >> },
      k \in { << >>, << << >> >>, << Key1 >> } }

\* A copy that does not ask hasArg: an argument the form left out empties
\* the field.
mergeArg_CopiesAbsent(old, arg, size) ==
    IF arg = << >> THEN << >> ELSE copyString(arg[1], size)

\* if (server.hasArg(f)) copyString(server.arg(f), config.f, size)
mergeArg(old, arg, size) == IF arg = << >> THEN old ELSE copyString(arg[1], size)

\* handleSave, the copies of the user-entered fields.
mergeForm(c, args) ==
    [c EXCEPT !.wifi_ssid    = mergeArg(@, args.wifi_ssid, MAX_LEN),
              !.wifi_pass    = mergeArg(@, args.wifi_pass, MAX_LEN),
              !.user_email   = mergeArg(@, args.user_email, MAX_LEN),
              !.device_name  = mergeArg(@, args.device_name, MAX_LEN),
              !.one_time_key = mergeArg(@, args.one_time_key, MAX_LEN)]

\* A reset that leaves the broker's password in place.
wipeDerived_KeepsBrokerPassword(c) ==
    [c EXCEPT !.registration_ok = 0,
              !.node_id = << >>,
              !.mqtt_host = << >>,
              !.mqtt_username = << >>,
              !.mqtt_port = 0,
              !.first_sensor_id = << >>,
              !.first_sensor_sn = << >>]

\* handleSave, "Reset registration-derived fields so the flow restarts cleanly".
wipeDerived(c) ==
    [c EXCEPT !.registration_ok = 0,
              !.node_id = << >>,
              !.mqtt_host = << >>,
              !.mqtt_username = << >>,
              !.mqtt_password = << >>,
              !.mqtt_port = 0,
              !.first_sensor_id = << >>,
              !.first_sensor_sn = << >>]

\* The registration-derived fields of a record.
AllDerivedSet(c) ==
    /\ c.node_id # << >> /\ c.mqtt_host # << >> /\ c.mqtt_port # 0
    /\ c.mqtt_username # << >> /\ c.mqtt_password # << >>
    /\ c.first_sensor_id # << >> /\ c.first_sensor_sn # << >>

NoDerivedSet(c) ==
    /\ c.node_id = << >> /\ c.mqtt_host = << >> /\ c.mqtt_port = 0
    /\ c.mqtt_username = << >> /\ c.mqtt_password = << >>
    /\ c.first_sensor_id = << >> /\ c.first_sensor_sn = << >>

Registered(c) == c.registration_ok = 1 /\ AllDerivedSet(c)

Wiped(c) == c.registration_ok = 0 /\ NoDerivedSet(c)

(***************************************************************************)
(* The state.                                                              *)
(***************************************************************************)
NoOutput == [type |-> "none", payload |-> << >>, topic |-> << >>]

\* The history variable: requests served, the run of consecutive failed
\* attempts of each supervisor since its backoff was 0 (-1: not in such a
\* run), the times of the last two emissions (-1: none), the ATM readings of
\* the last and of the first frame decoded, what the commit of handleSave's saveConfig returned
\* and the sector before it, whether performRegistration got past its key
\* test, whether the record was a registered one when the form came in, and
\* (in the decoder's specifications) the stream under test: its kind, the six
\* readings its well-formed frame was built from, the sample held before the
\* call and the bytes; the successful decodes over the stream under test, and
\* of the last call of readPMS5003Frame which return it took and where it
\* matched the header; the history of the request being served; and
\* (in the specification of loadConfig) the sector setup() found, what its
\* loadConfig returned and whether its commit succeeded, the boots so far,
\* and what the boot before this one found and loaded.
\* What handleSave is to leave in a user-entered field: the text the form
\* sent, or what the field held when the form did not carry it.
Entered(arg, old) == IF arg = << >> THEN old ELSE arg[1]

\* The user-entered fields of record c after a form with arguments args.
EnteredFields(c, args) ==
    [ wifi_ssid    |-> Entered(args.wifi_ssid, c.wifi_ssid),
      wifi_pass    |-> Entered(args.wifi_pass, c.wifi_pass),
      user_email   |-> Entered(args.user_email, c.user_email),
      device_name  |-> Entered(args.device_name, c.device_name),
      one_time_key |-> Entered(args.one_time_key, c.one_time_key) ]

\* The history of the request being served, forgotten at the next step of
\* loop(): the user-entered fields as the form and the record before it give
\* them, the record handleSave handed to saveConfig, what the commit of
\* performRegistration's saveConfig returned, whether both commits of
\* handleClear succeeded, and whether the device was registered before.
NoReq ==
    [ entered |-> EnteredFields(ZeroConfig, [wifi_ssid |-> << >>,
         wifi_pass |-> << >>, user_email |-> << >>, device_name |-> << >>,
         one_time_key |-> << >>]),
      asSet |-> ZeroConfig, regCommitOk |-> TRUE, clearOk |-> TRUE,
      wasRegistered |-> FALSE ]

\* For the runs across the wrap of millis(): the time that has really
\* passed since each supervisor's last attempt and since the last publish
\* (counted up by the clock, not computed from it), the clock's steps so far,
\* and what lastStaAttempt was before the latest attempt.
NoSince == [sta |-> 0, mqtt |-> 0, pub |-> 0, ticks |-> 0, staFrom |-> 0]

NoHistory ==
    [ nreq |-> 0, staRun |-> 0, mqttRun |-> 0, pubLast |-> -1, pubPrev |-> -1,
      decoded |-> << >>, first |-> << >>, commitOk |-> TRUE, flashBefore |-> ErasedImage,
      regIssued |-> FALSE, preReg |-> FALSE,
      ndec |-> 0, why |-> "none", hdr |-> 0, touched |-> {},
      bootFlash |-> ErasedImage, loadOk |-> TRUE, loaded |-> ZeroConfig,
      boots |-> 0, prevLoad |-> [recovered |-> FALSE, config |-> ZeroConfig],
      req |-> NoReq, since |-> NoSince,
      test |-> [kind |-> "none", words |-> << >>, prev |-> DefaultPMS,
                stream |-> << >>] ]

\* The RAM of a freshly started firmware (globals zero- or default-initialised)
\* over a given sector and build.
Booting(net, fl) ==
    /\ enableNetwork = net
    /\ pc = "boot"
    /\ now = 0
    /\ config = ZeroConfig
    /\ eeprom = [data |-> ZeroConfig, dirty |-> FALSE]
    /\ flash = fl
    /\ wifiMode = "WIFI_OFF"
    /\ wifiStatus = "WL_DISCONNECTED"
    /\ staConfigured = FALSE
    /\ lastStaAttempt = 0
    /\ staBackoffMs = 0
    /\ mqttConnected = FALSE
    /\ lastMqttConnAttempt = 0
    /\ mqttBackoffMs = 0
    /\ lastMqttPub = 0
    /\ g_pms = DefaultPMS
    /\ rx = << >>
    /\ out = NoOutput
    /\ hist = NoHistory

\* Images an earlier run of the firmware (either build: the layout and the tag
\* are the same) can have left in the sector.
WifiOnlyImage ==
    [ZeroConfig EXCEPT !.magic = CONFIG_MAGIC, !.wifi_ssid = Ssid1,
                       !.wifi_pass = Pass1]
RegisteredImage ==
    [stubRegistrationFields(WifiOnlyImage) EXCEPT !.one_time_key = Key1,
                                                   !.registration_ok = 1]

(***************************************************************************)
(* setup()                                                                 *)
(***************************************************************************)
Setup(join, outcome) ==
    /\ pc = "boot"
    /\ LET l == loadConfig(flash, outcome)
           j == connectSTA(l.config, now, "WIFI_AP", wifiStatus, staConfigured,
                           8000, join)
       IN  /\ config' = l.config
           /\ eeprom' = l.ee
           /\ flash' = l.flash
           /\ now' = j.now
           /\ wifiMode' = j.mode
           /\ wifiStatus' = j.status
           /\ staConfigured' = j.configured
    /\ lastStaAttempt' = 0
    /\ staBackoffMs' = 0
    /\ rx' = << >>
    /\ pc' = "http"
    /\ out' = NoOutput
    /\ hist' = IF hist.test.kind = "load"
               THEN [hist EXCEPT !.staRun = 0, !.mqttRun = 0,
                                 !.bootFlash = flash,
                                 !.loadOk = loadConfig(flash, outcome).ok,
                                 !.loaded = loadConfig(flash, outcome).config,
                                 !.boots = @ + 1]
               ELSE [hist EXCEPT !.staRun = 0, !.mqttRun = 0]
    /\ UNCHANGED << enableNetwork, mqttConnected, lastMqttConnAttempt,
                    mqttBackoffMs, lastMqttPub, g_pms >>

(***************************************************************************)
(* server.handleClient(): at most one request is dispatched per turn.      *)
(***************************************************************************)
\* No request, or one of the pages that only render (/, /status, probes).
NoRequest ==
    /\ pc = "http"
    /\ pc' = "poll"
    /\ out' = NoOutput
    /\ UNCHANGED << enableNetwork, now, config, eeprom, flash, wifiMode,
                    wifiStatus, staConfigured, lastStaAttempt, staBackoffMs,
                    mqttConnected, lastMqttConnAttempt, mqttBackoffMs,
                    lastMqttPub, g_pms, rx, hist >>

\* handleSave up to and including its call of ensureStaConnected().
HandleSave(args, outcome) ==
    /\ pc = "http"
    /\ hist.nreq < MaxReq
    /\ LET s == saveConfig(wipeDerived(mergeForm(config, args)), eeprom, flash,
                           outcome)
           \* lastStaAttempt = 0; staBackoffMs = 0; WiFi.disconnect();
           e == ensureStaConnected(s.config, "WL_DISCONNECTED", now, 0, 0)
       IN  /\ config' = s.config
           /\ eeprom' = s.ee
           /\ flash' = s.flash
           /\ lastStaAttempt' = e.last
           /\ staBackoffMs' = e.backoff
           /\ wifiMode' = IF e.attempt THEN WIFI_AP_STA ELSE wifiMode
           /\ staConfigured' = e.attempt
           /\ hist' = [hist EXCEPT !.nreq = @ + 1,
                                   !.staRun = IF e.attempt THEN 1 ELSE 0,
                                   !.commitOk = s.ok,
                                   !.flashBefore = flash,
                                   !.regIssued = FALSE,
                                   !.preReg = Registered(config),
                                   !.req = [NoReq EXCEPT
                                      !.entered = EnteredFields(config, args),
                                      !.wasRegistered = Registered(config),
                                      !.asSet = [wipeDerived(mergeForm(config, args))
                                                 EXCEPT !.magic = CONFIG_MAGIC]]]
    /\ wifiStatus' = "WL_DISCONNECTED"
    /\ mqttConnected' = FALSE
    /\ pc' = "register"
    /\ out' = NoOutput
    /\ UNCHANGED << enableNetwork, now, lastMqttConnAttempt, mqttBackoffMs,
                    lastMqttPub, g_pms, rx >>

\* handleSave from its call of performRegistration() to the reply.
HandleSaveRegister(join, outcome) ==
    /\ pc = "register"
    /\ LET r == performRegistration(enableNetwork, config, eeprom, flash, now,
                                    wifiMode, wifiStatus, staConfigured, join,
                                    outcome)
       IN  /\ config' = r.config
           /\ eeprom' = r.ee
           /\ flash' = r.flash
           /\ now' = r.now
           /\ wifiMode' = r.mode
           /\ wifiStatus' = r.status
           /\ staConfigured' = r.configured
           /\ out' = [type |-> IF r.ok THEN "saved_ok" ELSE "saved_failed",
                      payload |-> << >>, topic |-> << >>]
           /\ hist' = [hist EXCEPT !.regIssued = r.issued,
                                   !.req.regCommitOk = r.commitOk]
    /\ pc' = "poll"
    /\ UNCHANGED << enableNetwork, lastStaAttempt, staBackoffMs, mqttConnected,
                    lastMqttConnAttempt, mqttBackoffMs, lastMqttPub, g_pms, rx >>

\* handleClear: clearConfig(); loadConfig();
HandleClear(outcome1, outcome2) ==
    /\ pc = "http"
    /\ hist.nreq < MaxReq
    /\ LET c == clearConfig(eeprom, flash, outcome1)
           l == loadConfig(c.flash, outcome2)
       IN  /\ config' = l.config
           /\ eeprom' = l.ee
           /\ flash' = l.flash
    /\ hist' = [hist EXCEPT !.nreq = @ + 1,
                            !.req = [NoReq EXCEPT
                               !.wasRegistered = Registered(config)
                                                 /\ Registered(flash),
                               !.clearOk =
                                  LET c == clearConfig(eeprom, flash, outcome1)
                                  IN  c.ok /\ loadConfig(c.flash, outcome2).ok]]
    /\ pc' = "poll"
    /\ out' = [type |-> "cleared", payload |-> << >>, topic |-> << >>]
    /\ UNCHANGED << enableNetwork, now, wifiMode, wifiStatus, staConfigured,
                    lastStaAttempt, staBackoffMs, mqttConnected,
                    lastMqttConnAttempt, mqttBackoffMs, lastMqttPub, g_pms, rx >>

\* handleReboot: ESP.restart() clears the RAM; the sector stays.
HandleReboot ==
    /\ pc = "http"
    /\ hist.nreq < MaxReq
    /\ pc' = "boot"
    /\ now' = 0
    /\ config' = ZeroConfig
    /\ eeprom' = [data |-> ZeroConfig, dirty |-> FALSE]
    /\ wifiMode' = "WIFI_OFF"
    /\ wifiStatus' = "WL_DISCONNECTED"
    /\ staConfigured' = FALSE
    /\ lastStaAttempt' = 0
    /\ staBackoffMs' = 0
    /\ mqttConnected' = FALSE
    /\ lastMqttConnAttempt' = 0
    /\ mqttBackoffMs' = 0
    /\ lastMqttPub' = 0
    /\ g_pms' = DefaultPMS
    /\ rx' = << >>
    /\ out' = NoOutput
    /\ hist' = IF hist.test.kind = "load"
               THEN [NoHistory EXCEPT
                        !.nreq = hist.nreq + 1,
                        !.test = hist.test,
                        !.boots = hist.boots,
                        !.prevLoad = [recovered |-> hist.bootFlash.magic # CONFIG_MAGIC,
                                      config |-> hist.loaded]]
               ELSE [NoHistory EXCEPT !.nreq = hist.nreq + 1]
    /\ UNCHANGED << enableNetwork, flash >>

(***************************************************************************)
(* The four calls of loop() after server.handleClient().                   *)
(***************************************************************************)
\* pollPMS5003()
PollPMS ==
    /\ pc = "poll"
    /\ LET r    == readPMS5003Frame(rx, now)
           test == hist.test.kind # "none"
       IN  /\ g_pms' = pollPMS5003(g_pms, r)
           /\ rx' = r.rest
           /\ out' = [type |-> IF r.ok THEN "frame_ok" ELSE "no_frame",
                      payload |-> << >>, topic |-> << >>]
           /\ hist' = IF r.ok
                      THEN LET atm == << r.out.pm1_atm, r.out.pm25_atm,
                                         r.out.pm10_atm >>
                           IN  [hist EXCEPT !.decoded = atm,
                                            !.first = IF @ = << >> THEN atm
                                                      ELSE @,
                                            !.ndec = IF test THEN @ + 1 ELSE @,
                                            !.why = IF test THEN r.why ELSE @,
                                            !.hdr = IF test THEN r.hdr ELSE @,
                                            !.touched = IF test THEN r.touched ELSE @,
                                            !.req = NoReq]
                      ELSE [hist EXCEPT !.why = IF test THEN r.why ELSE @,
                                        !.hdr = IF test THEN r.hdr ELSE @,
                                        !.touched = IF test THEN r.touched ELSE @,
                                        !.req = NoReq]
    /\ pc' = "sta"
    /\ UNCHANGED << enableNetwork, now, config, eeprom, flash, wifiMode,
                    wifiStatus, staConfigured, lastStaAttempt, staBackoffMs,
                    mqttConnected, lastMqttConnAttempt, mqttBackoffMs,
                    lastMqttPub >>

\* ensureStaConnected()
EnsureSta ==
    /\ pc = "sta"
    /\ LET e == ensureStaConnected(config, wifiStatus, now, lastStaAttempt,
                                   staBackoffMs)
       IN  /\ lastStaAttempt' = e.last
           /\ staBackoffMs' = e.backoff
           /\ wifiMode' = IF e.attempt THEN WIFI_AP_STA ELSE wifiMode
           /\ staConfigured' = (e.attempt \/ staConfigured)
           /\ out' = [type |-> IF e.attempt THEN "sta_begin"
                                ELSE IF haveWifiCreds(config)
                                        /\ wifiStatus = "WL_CONNECTED"
                                THEN "sta_connected"
                                ELSE "none",
                      payload |-> << >>, topic |-> << >>]
           /\ hist' = [hist EXCEPT !.staRun =
                         IF e.attempt
                         THEN (IF @ >= 0 THEN @ + 1 ELSE -1)
                         ELSE IF wifiStatus = "WL_CONNECTED"
                         THEN (IF e.backoff = 0 THEN 0 ELSE -1)
                         ELSE @,
                                   !.since =
                         IF e.attempt /\ hist.test.kind = "wrap"
                         THEN [@ EXCEPT !.sta = 0, !.staFrom = lastStaAttempt]
                         ELSE @]
    /\ pc' = "mqtt"
    /\ UNCHANGED << enableNetwork, now, config, eeprom, flash, wifiStatus,
                    mqttConnected, lastMqttConnAttempt, mqttBackoffMs,
                    lastMqttPub, g_pms, rx >>

\* mqttEnsureConnected(); a connect can succeed only over a connected station.
MqttEnsure(brokerOk) ==
    /\ pc = "mqtt"
    /\ LET ok == brokerOk /\ wifiStatus = "WL_CONNECTED"
           m  == mqttEnsureConnected(enableNetwork, config, mqttConnected, now,
                                     lastMqttConnAttempt, mqttBackoffMs, ok)
       IN  /\ mqttConnected' = m.connected
           /\ lastMqttConnAttempt' = m.last
           /\ mqttBackoffMs' = m.backoff
           /\ out' = [type |-> IF m.attempt THEN "mqtt_connect" ELSE "none",
                      payload |-> << >>, topic |-> << >>]
           /\ hist' = [hist EXCEPT !.mqttRun =
                         IF ~m.attempt THEN @
                         ELSE IF m.connected THEN (IF m.backoff = 0 THEN 0 ELSE -1)
                         ELSE (IF @ >= 0 THEN @ + 1 ELSE -1),
                                   !.since.mqtt =
                         IF m.attempt /\ hist.test.kind = "wrap" THEN 0 ELSE @]
    /\ pc' = "pub"
    /\ UNCHANGED << enableNetwork, now, config, eeprom, flash, wifiMode,
                    wifiStatus, staConfigured, lastStaAttempt, staBackoffMs,
                    lastMqttPub, g_pms, rx >>

\* mqttMaybePublish()
MaybePublish ==
    /\ pc = "pub"
    /\ IF publishDue(enableNetwork, config, mqttConnected, g_pms, now, lastMqttPub)
       THEN /\ lastMqttPub' = IF enableNetwork = 1 THEN now ELSE lastMqttPub
            /\ out' = [type |-> "publish", payload |-> publishPayload(g_pms),
                       topic |-> IF enableNetwork = 1 THEN mqttTopic(config)
                                 ELSE << >>]
            /\ hist' = [hist EXCEPT !.pubPrev = hist.pubLast, !.pubLast = now,
                                    !.since.pub =
                                       IF hist.test.kind = "wrap" THEN 0 ELSE @]
       ELSE /\ out' = [type |-> "no_publish", payload |-> << >>,
                       topic |-> << >>]
            /\ UNCHANGED << lastMqttPub, hist >>
    /\ pc' = "http"
    /\ UNCHANGED << enableNetwork, now, config, eeprom, flash, wifiMode,
                    wifiStatus, staConfigured, lastStaAttempt, staBackoffMs,
                    mqttConnected, lastMqttConnAttempt, mqttBackoffMs, g_pms, rx >>

(***************************************************************************)
(* The environment.                                                        *)
(***************************************************************************)
\* The code sees a link change only at its next call that reads the link, so
\* the links change before a turn of loop() and between ensureStaConnected()
\* and mqttEnsureConnected().
InLoop == pc \in {"http", "mqtt"}

\* d milliseconds pass between two turns of loop(), up to the horizon.
Tick(d, horizon) ==
    /\ pc = "http"
    /\ now + Ms(d) <= Ms(horizon)
    /\ now' = (now + Ms(d)) % Wrap
    /\ UNCHANGED << enableNetwork, pc, config, eeprom, flash, wifiMode,
                    wifiStatus, staConfigured, lastStaAttempt, staBackoffMs,
                    mqttConnected, lastMqttConnAttempt, mqttBackoffMs,
                    lastMqttPub, g_pms, rx, out, hist >>

\* d milliseconds pass between two turns of loop() of a device that has been
\* up for weeks: millis() goes on through 2^32 - 1 to 0.
TickAcross(d) ==
    /\ pc = "http"
    /\ hist.since.ticks < WrapTicks
    /\ now' = (now + Ms(d)) % Wrap
    /\ hist' = [hist EXCEPT !.since = [@ EXCEPT !.sta = @ + Ms(d),
                                                !.mqtt = @ + Ms(d),
                                                !.pub = @ + Ms(d),
                                                !.ticks = @ + 1]]
    /\ UNCHANGED << enableNetwork, pc, config, eeprom, flash, wifiMode,
                    wifiStatus, staConfigured, lastStaAttempt, staBackoffMs,
                    mqttConnected, lastMqttConnAttempt, mqttBackoffMs,
                    lastMqttPub, g_pms, rx, out >>

\* The station joins the access point WiFi.begin() named.
WifiUp ==
    /\ InLoop
    /\ staConfigured
    /\ wifiStatus # "WL_CONNECTED"
    /\ wifiStatus' = "WL_CONNECTED"
    /\ UNCHANGED << enableNetwork, pc, now, config, eeprom, flash, wifiMode,
                    staConfigured, lastStaAttempt, staBackoffMs, mqttConnected,
                    lastMqttConnAttempt, mqttBackoffMs, lastMqttPub, g_pms, rx,
                    out, hist >>

\* The station loses the access point, and the broker's TCP link with it.
WifiDown ==
    /\ InLoop
    /\ wifiStatus = "WL_CONNECTED"
    /\ wifiStatus' = "WL_DISCONNECTED"
    /\ mqttConnected' = FALSE
    /\ UNCHANGED << enableNetwork, pc, now, config, eeprom, flash, wifiMode,
                    staConfigured, lastStaAttempt, staBackoffMs,
                    lastMqttConnAttempt, mqttBackoffMs, lastMqttPub, g_pms, rx,
                    out, hist >>

\* The broker's link drops.
BrokerDown ==
    /\ InLoop
    /\ mqttConnected
    /\ mqttConnected' = FALSE
    /\ UNCHANGED << enableNetwork, pc, now, config, eeprom, flash, wifiMode,
                    wifiStatus, staConfigured, lastStaAttempt, staBackoffMs,
                    lastMqttConnAttempt, mqttBackoffMs, lastMqttPub, g_pms, rx,
                    out, hist >>

\* The sensor sends the bytes f while the receive buffer is empty.
SensorBytes(f) ==
    /\ pc = "http"
    /\ rx = << >>
    /\ rx' = f
    /\ UNCHANGED << enableNetwork, pc, now, config, eeprom, flash, wifiMode,
                    wifiStatus, staConfigured, lastStaAttempt, staBackoffMs,
                    mqttConnected, lastMqttConnAttempt, mqttBackoffMs,
                    lastMqttPub, g_pms, out, hist >>

(***************************************************************************)
(* Frames for the sensor link, built as the PMS5003 data sheet lays them   *)
(* out: 0x42 0x4D, the length (big-endian), the data bytes, the checksum.  *)
(***************************************************************************)
RECURSIVE SumSeq(_)
SumSeq(s) == IF s = << >> THEN 0 ELSE Head(s) + SumSeq(Tail(s))

\* The frame around the data bytes d (length field Len(d) + 2).
MkFrame(d) ==
    LET n    == Len(d) + 2
        head == << 66, 77, n \div 256, n % 256 >>
        sum  == (SumSeq(head) + SumSeq(d)) % U16
    IN  head \o d \o << sum \div 256, sum % 256 >>

\* The 26 data bytes of a length-28 frame: six readings w, then filler.
RECURSIVE BytesOf(_)
BytesOf(w) ==
    IF w = << >> THEN << >>
    ELSE << Head(w) \div 256, Head(w) % 256 >> \o BytesOf(Tail(w))

DataOf(w, fill) == BytesOf(w) \o [i \in 1..14 |-> fill]

(***************************************************************************)
(* Specifications.                                                         *)
(***************************************************************************)
SampleA == << 1, 2, 3, 4, 5, 6 >>
SampleB == << 258, 772, 1286, 1800, 2314, 2828 >>

\* A frame whose first data byte was flipped on the wire.
CorruptFrame == [MkFrame(DataOf(SampleA, 0)) EXCEPT ![5] = 255]

LinkFrames == { MkFrame(DataOf(SampleA, 0)), MkFrame(DataOf(SampleB, 0)),
                CorruptFrame }

\* The portal: any request, any commit outcome, any join outcome, over any
\* image a previous run left, in either build; a short stretch of time.
Init ==
    \E net \in {0, 1}, fl \in {ErasedImage, WifiOnlyImage, RegisteredImage} :
        Booting(net, fl)

Next ==
    \/ \E j \in JoinOutcomes, o \in CommitOutcomes : Setup(j, o)
    \/ NoRequest
    \/ \E a \in FormInputs, o \in CommitOutcomes : HandleSave(a, o)
    \/ \E j \in JoinOutcomes, o \in CommitOutcomes : HandleSaveRegister(j, o)
    \/ \E o1 \in CommitOutcomes, o2 \in CommitOutcomes : HandleClear(o1, o2)
    \/ HandleReboot
    \/ PollPMS
    \/ EnsureSta
    \/ \E ok \in BOOLEAN : MqttEnsure(ok)
    \/ MaybePublish
    \/ WifiUp
    \/ WifiDown
    \/ BrokerDown

Spec == Init /\ [][Next]_vars

\* The supervisors over a long stretch of time: a registered record, no
\* request, no sensor; time passes between the turns of loop(), and each
\* supervisor is followed through its whole backoff range. In the stubbed
\* build (whose mqttEnsureConnected is empty) the access point comes and
\* goes. In the network-enabled build the access point is either joined at
\* boot and stays, with the broker coming and going, or is out of reach for
\* good, so that both supervisors fail turn after turn.
InitSup == \E net \in {0, 1} : Booting(net, RegisteredImage)

NextSup ==
    \/ \E j \in JoinOutcomes : Setup(j, "ok")
    \/ NoRequest
    \/ PollPMS
    \/ EnsureSta
    \/ \E ok \in BOOLEAN : MqttEnsure(ok)
    \/ MaybePublish
    \/ Tick(5000, 5000 * MaxTicks)
    \/ (enableNetwork = 0 /\ WifiUp)
    \/ (enableNetwork = 0 /\ WifiDown)
    \/ BrokerDown

SpecSup == InitSup /\ [][NextSup]_vars

\* The decoder alone: a device that has booted over an erased sector (the
\* state setup() leaves, some turns of loop() later) holds no sample or an
\* earlier one, the sensor has sent one frame, well-formed or with one byte
\* of its body changed, and loop() polls the sensor.
TestWords == { SampleA, SampleB, << 0, 0, 0, 0, 0, 0 >>,
               << 65535, 65535, 65535, 65535, 65535, 65535 >> }

\* Well-formed frames of length 28, and of length 32 (four more data bytes).
GoodFrames28 == { [w |-> w, f |-> MkFrame(DataOf(w, fill))] :
                  w \in TestWords, fill \in {0, 255} }
GoodFrames32 == { [w |-> w, f |-> MkFrame(DataOf(w, 1) \o << 1, 2, 3, 4 >>)] :
                  w \in {SampleA, SampleB} }

\* Every change of one byte of the body (the bytes after the length field).
CorruptionsOf(fr) ==
    { [fr EXCEPT ![p] = v] : p \in 5..Len(fr), v \in 0..255 } \ {fr}

DecoderTests ==
    { [kind |-> "good", words |-> g.w, stream |-> g.f] : g \in GoodFrames28 }
    \cup
    { [kind |-> "corrupt", words |-> g[1].w, stream |-> g[2]] :
      g \in UNION { {g} \X CorruptionsOf(g.f) :
                    g \in GoodFrames28 \cup GoodFrames32 } }

EarlierSample ==
    [ pm1_cf1 |-> 11, pm25_cf1 |-> 12, pm10_cf1 |-> 13,
      pm1_atm |-> 14, pm25_atm |-> 15, pm10_atm |-> 16,
      ts_ms |-> Ms(8000), valid |-> TRUE ]

InitDec ==
    \E net \in {0, 1}, t \in DecoderTests, g \in {DefaultPMS, EarlierSample} :
        /\ enableNetwork = net
        /\ pc = "poll"
        /\ now = Ms(16000)
        /\ LET l == loadConfig(ErasedImage, "ok")
               j == connectSTA(l.config, 0, "WIFI_AP", "WL_DISCONNECTED", FALSE,
                               8000, "timeout")
           IN  /\ config = l.config
               /\ eeprom = l.ee
               /\ flash = l.flash
               /\ wifiMode = j.mode
               /\ wifiStatus = j.status
               /\ staConfigured = j.configured
        /\ lastStaAttempt = 0
        /\ staBackoffMs = 0
        /\ mqttConnected = FALSE
        /\ lastMqttConnAttempt = 0
        /\ mqttBackoffMs = 0
        /\ lastMqttPub = 0
        /\ g_pms = g
        /\ rx = t.stream
        /\ out = NoOutput
        /\ hist = [NoHistory EXCEPT
                      !.decoded = IF g.valid
                                  THEN << g.pm1_atm, g.pm25_atm, g.pm10_atm >>
                                  ELSE << >>,
                      !.first = IF g.valid
                                THEN << g.pm1_atm, g.pm25_atm, g.pm10_atm >>
                                ELSE << >>,
                      !.test = [kind |-> t.kind, words |-> t.words, prev |-> g,
                                stream |-> t.stream]]

NextDec == PollPMS

SpecDec == InitDec /\ [][NextDec]_vars

\* Start-up over a sector this firmware did not write: erased, or left by a
\* firmware with another tag (with whatever the fields then held); the
\* device is restarted and loads again.
StaleImages ==
    { ErasedImage,
      [RegisteredImage EXCEPT !.magic = 0],
      [RegisteredImage EXCEPT !.magic = CONFIG_MAGIC + 1],
      [WifiOnlyImage EXCEPT !.magic = ERASED_WORD] }

InitLoad ==
    \E net \in {0, 1}, fl \in StaleImages \cup {RegisteredImage} :
        /\ enableNetwork = net
        /\ pc = "boot"
        /\ now = 0
        /\ config = ZeroConfig
        /\ eeprom = [data |-> ZeroConfig, dirty |-> FALSE]
        /\ flash = fl
        /\ wifiMode = "WIFI_OFF"
        /\ wifiStatus = "WL_DISCONNECTED"
        /\ staConfigured = FALSE
        /\ lastStaAttempt = 0
        /\ staBackoffMs = 0
        /\ mqttConnected = FALSE
        /\ lastMqttConnAttempt = 0
        /\ mqttBackoffMs = 0
        /\ lastMqttPub = 0
        /\ g_pms = DefaultPMS
        /\ rx = << >>
        /\ out = NoOutput
        /\ hist = [NoHistory EXCEPT
                      !.test = [kind |-> "load", words |-> << >>,
                                prev |-> DefaultPMS, stream |-> << >>]]

NextLoad ==
    \/ \E j \in JoinOutcomes, o \in CommitOutcomes : Setup(j, o)
    \/ NoRequest
    \/ HandleReboot
    \/ PollPMS
    \/ EnsureSta
    \/ \E ok \in BOOLEAN : MqttEnsure(ok)
    \/ MaybePublish

SpecLoad == InitLoad /\ [][NextLoad]_vars

\* Resynchronisation: the sensor link holds garbage, then a frame whose
\* length field was changed on the wire, then a well-formed frame; loop()
\* turns until the bytes are used up, and on.
Garbage == { << >>, << 0 >>, << 1, 2, 3 >>, << 77, 66, 0 >>, << 66, 0, 77 >>,
             << 66 >> }

\* Readings whose frame ends in the byte 0x42 (checksum 0x0142).
SampleEnds42 == << 151, 0, 0, 0, 0, 0 >>

\* Length fields other than 28: below and above the bounds, and within them.
WrongLengths == { 0, 27, 30, 64, 65, 500 }

\* The frame fr with its length field replaced by n.
WithLength(fr, n) == [fr EXCEPT ![3] = n \div 256, ![4] = n % 256]

MalformedFrames ==
    { WithLength(MkFrame(DataOf(w, 0)), n) :
      w \in {SampleB, SampleEnds42}, n \in WrongLengths }

ResyncTests ==
    { [kind |-> "resync", words |-> w, stream |-> g \o m \o MkFrame(DataOf(w, 0))] :
      g \in Garbage, m \in MalformedFrames, w \in {SampleA, SampleB} }

\* The state setup() leaves over an erased sector, some turns of loop()
\* later, at the call of pollPMS5003() with the bytes of test t waiting and
\* the sample g held.
Polling(net, t, g) ==
    /\ enableNetwork = net
    /\ pc = "poll"
    /\ now = Ms(16000)
    /\ LET l == loadConfig(ErasedImage, "ok")
           j == connectSTA(l.config, 0, "WIFI_AP", "WL_DISCONNECTED", FALSE,
                           8000, "timeout")
       IN  /\ config = l.config
           /\ eeprom = l.ee
           /\ flash = l.flash
           /\ wifiMode = j.mode
           /\ wifiStatus = j.status
           /\ staConfigured = j.configured
    /\ lastStaAttempt = 0
    /\ staBackoffMs = 0
    /\ mqttConnected = FALSE
    /\ lastMqttConnAttempt = 0
    /\ mqttBackoffMs = 0
    /\ lastMqttPub = 0
    /\ g_pms = g
    /\ rx = t.stream
    /\ out = NoOutput
    /\ hist = [NoHistory EXCEPT
                  !.decoded = IF g.valid
                              THEN << g.pm1_atm, g.pm25_atm, g.pm10_atm >>
                              ELSE << >>,
                  !.first = IF g.valid
                            THEN << g.pm1_atm, g.pm25_atm, g.pm10_atm >>
                            ELSE << >>,
                  !.test = [kind |-> t.kind, words |-> t.words, prev |-> g,
                            stream |-> t.stream]]

InitResync == \E net \in {0, 1}, t \in ResyncTests : Polling(net, t, DefaultPMS)

NextResync ==
    \/ NoRequest
    \/ PollPMS
    \/ EnsureSta
    \/ \E ok \in BOOLEAN : MqttEnsure(ok)
    \/ MaybePublish

SpecResync == InitResync /\ [][NextResync]_vars

\* The publish gate: frames keep arriving, the broker comes and goes, time
\* passes between the turns of loop(); a registered or an unregistered
\* record; the access point is joined at boot and stays.
InitPub ==
    \E net \in {0, 1}, fl \in {RegisteredImage, WifiOnlyImage} : Booting(net, fl)

NextPub ==
    \/ Setup("connected", "ok")
    \/ NoRequest
    \/ PollPMS
    \/ EnsureSta
    \/ \E ok \in BOOLEAN : MqttEnsure(ok)
    \/ MaybePublish
    \/ Tick(5000, 5000 * ShortTicks)
    \/ \E f \in LinkFrames : SensorBytes(f)
    \/ BrokerDown

SpecPub == InitPub /\ [][NextPub]_vars

\* Every way out of readPMS5003Frame: streams that end before a header
\* (marker timeout), in the length field (length timeout) or in the body
\* (body timeout), frames with a length field out of bounds, frames with one
\* byte of the body raised by one (checksum mismatch), and well-formed
\* frames; each test names the return it is built for.
KindSamples == { SampleA, SampleB }

KindStreams(w) ==
    LET fr == MkFrame(DataOf(w, 0))
    IN  { [kind |-> "marker_timeout", stream |-> g] :
          g \in Garbage \cup { << 66, 66 >>, SubSeq(fr, 1, 1), Tail(fr) } }
        \cup
        { [kind |-> "length_timeout", stream |-> g \o SubSeq(fr, 1, k)] :
          g \in { << >>, << 0 >> }, k \in 2..3 }
        \cup
        { [kind |-> "length_bounds", stream |-> WithLength(fr, n)] :
          n \in { 0, 27, 65, 500, 65535 } }
        \cup
        { [kind |-> "body_timeout", stream |-> SubSeq(fr, 1, k)] :
          k \in 4..(Len(fr) - 1) }
        \cup
        { [kind |-> "checksum", stream |-> [fr EXCEPT ![p] = (@ + 1) % 256]] :
          p \in 5..Len(fr) }
        \cup
        { [kind |-> "ok", stream |-> f] :
          f \in { fr, << 0, 77 >> \o fr, MkFrame(DataOf(w, 255) \o << 1, 2, 3, 4 >>) } }

KindTests ==
    { [kind |-> t.kind, words |-> w, stream |-> t.stream] :
      w \in KindSamples, t \in KindStreams(SampleA) \cup KindStreams(SampleB) }

InitKinds ==
    \E net \in {0, 1}, t \in KindTests, g \in {DefaultPMS, EarlierSample} :
        /\ t \in { [kind |-> k.kind, words |-> t.words, stream |-> k.stream] :
                   k \in KindStreams(t.words) }
        /\ Polling(net, t, g)

NextKinds == PollPMS

SpecKinds == InitKinds /\ [][NextKinds]_vars

\* copyString alone: a text of up to MaxText characters is copied into a
\* field of 1..MaxField bytes that lies between two other bytes of the
\* record and holds zeroes (a fresh record), or an earlier text that fills
\* it.
Texts == UNION { [1..n -> {97, 98}] : n \in 0..MaxText }

NeighbourByte == 170

FieldFills(m) == { [i \in 1..m |-> 0], [i \in 1..m |-> IF i = m THEN 0 ELSE 120] }

CopyTests ==
    { [kind |-> "copy", words |-> << NeighbourByte >> \o f \o << NeighbourByte >>,
       stream |-> src] :
      src \in Texts, f \in UNION { FieldFills(m) : m \in 1..MaxField } }

\* The field of a block of memory: what lies between the two neighbours.
FieldOf(mem) == SubSeq(mem, 2, Len(mem) - 1)

Copying(net, t) ==
    /\ enableNetwork = net
    /\ pc = "copy"
    /\ now = 0
    /\ config = ZeroConfig
    /\ eeprom = [data |-> ZeroConfig, dirty |-> FALSE]
    /\ flash = ErasedImage
    /\ wifiMode = "WIFI_AP"
    /\ wifiStatus = "WL_DISCONNECTED"
    /\ staConfigured = FALSE
    /\ lastStaAttempt = 0
    /\ staBackoffMs = 0
    /\ mqttConnected = FALSE
    /\ lastMqttConnAttempt = 0
    /\ mqttBackoffMs = 0
    /\ lastMqttPub = 0
    /\ g_pms = DefaultPMS
    /\ rx = << >>
    /\ out = [type |-> "memory", payload |-> t.words, topic |-> << >>]
    /\ hist = [NoHistory EXCEPT
                  !.test = [kind |-> t.kind, words |-> t.words,
                            prev |-> DefaultPMS, stream |-> t.stream]]

\* The call copyString(src, field, size of the field).
CopyString ==
    /\ pc = "copy"
    /\ pc' = "copied"
    /\ out' = [out EXCEPT !.payload =
                  copyStringBytes(hist.test.stream, out.payload, 2,
                                  Len(out.payload) - 2)]
    /\ UNCHANGED << enableNetwork, now, config, eeprom, flash, wifiMode,
                    wifiStatus, staConfigured, lastStaAttempt, staBackoffMs,
                    mqttConnected, lastMqttConnAttempt, mqttBackoffMs,
                    lastMqttPub, g_pms, rx, hist >>

NextCopy == CopyString

InitCopy == \E net \in {0, 1}, t \in CopyTests : Copying(net, t)

SpecCopy == InitCopy /\ [][NextCopy]_vars

\* The header scan alone: up to MaxPrefix bytes, each 0x42, 0x4D or 0x00,
\* arrive before a well-formed frame, and loop() polls the sensor once.
Prefixes == UNION { [1..n -> {66, 77, 0}] : n \in 0..MaxPrefix }

SeekTests ==
    { [kind |-> "seek", words |-> w, stream |-> pre \o MkFrame(DataOf(w, 0))] :
      pre \in Prefixes, w \in {SampleA, SampleB} }

InitSeek == \E net \in {0, 1}, t \in SeekTests : Polling(net, t, DefaultPMS)

NextSeek == PollPMS

SpecSeek == InitSeek /\ [][NextSeek]_vars

\* The length field alone: a header, a length field of any of the values
\* below, at and above the bounds (also 28 in the low byte only, 0x011C, and
\* 28 in the wrong byte order, 0x1C00), and then the body of a well-formed
\* frame of that length, or the same with its last byte changed, or, for a
\* length no frame can have, more bytes than any body holds.
LengthValues == (0..70) \cup { 255, 256, 284, 7168, 65535 }

Filler == [i \in 1..70 |-> 1 + (i % 7)]

LengthStreams(n) ==
    IF n >= 2 /\ n <= 66
    THEN LET fr == MkFrame([i \in 1..(n - 2) |-> i % 5])
         IN  { fr, [fr EXCEPT ![Len(fr)] = (@ + 1) % 256], SubSeq(fr, 1, Len(fr) - 1) }
    ELSE { << 66, 77, n \div 256, n % 256 >> \o Filler }

LengthTests ==
    { [kind |-> "length", words |-> << n >>, stream |-> f] :
      n \in LengthValues, f \in UNION { LengthStreams(m) : m \in LengthValues } }

InitLength ==
    \E net \in {0, 1}, t \in LengthTests, g \in {DefaultPMS, EarlierSample} :
        /\ t.stream \in LengthStreams(t.words[1])
        /\ Polling(net, t, g)

NextLength == PollPMS

SpecLength == InitLength /\ [][NextLength]_vars

\* Across the wrap of millis(): a registered device has been up for 49
\* days, up to WrapLead steps of 5000 ms short of 2^32 ms. Either its access
\* point has been out of reach all along (both backoffs, in the
\* network-enabled build, are at the ceiling and both supervisors have just
\* tried again), or it joined at boot, connected to the broker in the first
\* turn of loop(), and has just published the sample it holds. loop() turns
\* and the clock goes on through the wrap.
Wrapping(net, lead, up) ==
    LET t0 == Wrap - Ms(5000) * lead
    IN  /\ enableNetwork = net
        /\ pc = "http"
        /\ now = t0 % Wrap
        /\ config = RegisteredImage
        /\ eeprom = [data |-> RegisteredImage, dirty |-> FALSE]
        /\ flash = RegisteredImage
        /\ wifiMode = WIFI_AP_STA
        /\ wifiStatus = IF up THEN "WL_CONNECTED" ELSE "WL_DISCONNECTED"
        /\ staConfigured = TRUE
        /\ lastStaAttempt = IF up THEN 0 ELSE t0 % Wrap
        /\ staBackoffMs = IF up THEN 0 ELSE Ms(60000)
        /\ mqttConnected = (up /\ net = 1)
        /\ lastMqttConnAttempt = IF net = 0 THEN 0
                                 ELSE IF up THEN Ms(5000) ELSE t0 % Wrap
        /\ mqttBackoffMs = IF net = 1 /\ ~up THEN Ms(60000) ELSE 0
        /\ lastMqttPub = IF net = 1 /\ up THEN t0 % Wrap ELSE 0
        /\ g_pms = EarlierSample
        /\ rx = << >>
        /\ out = NoOutput
        /\ hist = [NoHistory EXCEPT
                      !.staRun = -1, !.mqttRun = -1,
                      !.since = [sta |-> IF up THEN t0 ELSE 0,
                                 mqtt |-> IF net = 1 /\ ~up THEN 0 ELSE t0 - Ms(5000),
                                 pub |-> IF net = 1 /\ up THEN 0 ELSE t0,
                                 ticks |-> 0, staFrom |-> 0],
                      !.test = [kind |-> "wrap", words |-> << >>,
                                prev |-> EarlierSample, stream |-> << >>]]

InitWrap ==
    \E net \in {0, 1}, lead \in 0..WrapLead, up \in BOOLEAN :
        Wrapping(net, lead, up)

NextWrap ==
    \/ NoRequest
    \/ PollPMS
    \/ EnsureSta
    \/ MqttEnsure(FALSE)
    \/ MaybePublish
    \/ TickAcross(5000)

SpecWrap == InitWrap /\ [][NextWrap]_vars

\* Credentials coming and going: over any of the images, in either build,
\* the portal takes submissions (with or without network credentials and
\* key), resets and reboots, all commits succeeding, while the sensor sends
\* well-formed frames, the station may join late and 20000 ms pass at a time.
CredForms ==
    { a \in FormInputs : /\ a.user_email = << >>
                         /\ a.wifi_pass # << << >> >>
                         /\ a.one_time_key # << << >> >> }

InitCreds ==
    \E net \in {0, 1}, fl \in {ErasedImage, WifiOnlyImage, RegisteredImage} :
        Booting(net, fl)

NextCreds ==
    \/ \E j \in JoinOutcomes : Setup(j, "ok")
    \/ NoRequest
    \/ \E a \in CredForms : HandleSave(a, "ok")
    \/ \E j \in JoinOutcomes : HandleSaveRegister(j, "ok")
    \/ HandleClear("ok", "ok")
    \/ HandleReboot
    \/ PollPMS
    \/ EnsureSta
    \/ \E ok \in BOOLEAN : MqttEnsure(ok)
    \/ MaybePublish
    \/ Tick(20000, 20000 * CredTicks)
    \/ SensorBytes(MkFrame(DataOf(SampleA, 0)))
    \/ WifiUp

SpecCreds == InitCreds /\ [][NextCreds]_vars

\* The supervisors left to themselves for good: a registered device whose
\* access point is out of reach boots, in either build, and loop() turns for
\* ever while time passes (up to the horizon): every turn of loop() is taken
\* in the end, and so is every 5000 ms of time while the horizon allows.
InitLive == \E net \in {0, 1} : Booting(net, RegisteredImage)

LoopLive ==
    \/ Setup("timeout", "ok")
    \/ NoRequest
    \/ PollPMS
    \/ EnsureSta
    \/ MqttEnsure(FALSE)
    \/ MaybePublish

TimeLive == Tick(5000, 5000 * LiveTicks)

NextLive == LoopLive \/ TimeLive

SpecLive ==
    /\ InitLive
    /\ [][NextLive]_vars
    /\ WF_vars(LoopLive)
    /\ SF_vars(TimeLive)

(***************************************************************************)
(* C1. handleSave on a registered record.                                  *)
(***************************************************************************)
\* C1 as claimed: when handleSave reaches performRegistration() on a record
\* that was registered, the record in memory has registration_ok cleared and
\* every derived field empty, and that record is the persisted one.
C1_WipedAndPersistedBeforeRegistration ==
    (pc = "register" /\ hist.preReg) =>
        /\ Wiped(config)
        /\ flash = config

\* C1 amended: when handleSave reaches performRegistration() on a record
\* that was registered, no registration has been issued, the record in memory
\* has registration_ok cleared and every derived field empty and has been
\* handed to the EEPROM library; it is the persisted record if the commit
\* succeeded, and otherwise the sector holds the image from before the
\* submission or is erased, never the new fields with the old credentials.
C1_WipedAndSavedBeforeRegistration ==
    (pc = "register" /\ hist.preReg) =>
        /\ ~hist.regIssued
        /\ Wiped(config)
        /\ config.magic = CONFIG_MAGIC
        /\ eeprom.data = config
        /\ hist.commitOk => flash = config
        /\ ~hist.commitOk => flash \in {hist.flashBefore, ErasedImage}

\* A registered record took a form with a new key, and the wiped record is
\* in the sector before performRegistration() runs.
C1_Witness ==
    /\ pc = "register"
    /\ hist.preReg
    /\ hist.commitOk
    /\ Registered(hist.flashBefore)
    /\ flash = config
    /\ config.one_time_key # hist.flashBefore.one_time_key

(***************************************************************************)
(* C2. Invariant I2.                                                       *)
(***************************************************************************)
\* C2 as claimed: in every state, in both builds, the derived fields of the
\* record in memory are non-empty/non-zero exactly when registration_ok is set.
C2_DerivedValidIffRegistrationOk ==
    /\ config.registration_ok = 1 => AllDerivedSet(config)
    /\ config.registration_ok # 1 => NoDerivedSet(config)

C4_BrokerSuccessResetsBackoff ==
    (out.type = "mqtt_connect" /\ mqttConnected) =>
        /\ mqttBackoffMs = 0
        /\ mqttAttemptDue(enableNetwork, config, FALSE, now,
                          lastMqttConnAttempt, mqttBackoffMs)

\* C4, the station's half: when ensureStaConnected() has just seen the
\* station connected, the backoff is 0 and a drop at this instant makes the
\* next attempt due.
C4_StaSuccessResetsBackoff ==
    out.type = "sta_connected" =>
        /\ staBackoffMs = 0
        /\ staAttemptDue(config, "WL_DISCONNECTED", now, lastStaAttempt,
                         staBackoffMs)

\* C4 as claimed: for each of the two supervisors an observed successful
\* connection resets the backoff to 0, so that after a drop the very next
\* is-attempt-due check at the same instant answers true.
C4_SuccessResetsBackoff ==
    /\ C4_BrokerSuccessResetsBackoff
    /\ C4_StaSuccessResetsBackoff

(***************************************************************************)
(* C5. The broker supervisor and the station.                              *)
(***************************************************************************)
\* C5 as claimed: mqttEnsureConnected() never calls mqttClient.connect()
\* while WiFi.status() is not WL_CONNECTED.
C5_NoBrokerAttemptWhileStationDown ==
    out.type = "mqtt_connect" => wifiStatus = "WL_CONNECTED"

(***************************************************************************)
(* C6. The publish interval.                                               *)
(***************************************************************************)
\* C6 as claimed: in both builds, two successive emissions of
\* mqttMaybePublish() are at least 20000 ms apart (at most one per interval,
\* however many valid samples arrive in between).
C6_AtMostOnePublishPerInterval ==
    hist.pubPrev >= 0 => Sub32(hist.pubLast, hist.pubPrev) >= Ms(20000)

C8_PublishCarriesLatestSample ==
    out.type = "publish" => out.payload = hist.decoded

\* An emission after a second, different frame had replaced the first.
C8_Witness ==
    /\ out.type = "publish"
    /\ enableNetwork = 1
    /\ out.payload = hist.decoded
    /\ hist.decoded # hist.first

(***************************************************************************)
(* C9. One corrupted byte.                                                 *)
(***************************************************************************)
\* C9: for a well-formed frame with one byte of its body changed (a data
\* byte or a checksum byte), readPMS5003Frame() reports no frame and g_pms
\* is what it was.
C9_CorruptedFrameRejected ==
    (pc = "sta" /\ hist.test.kind = "corrupt") =>
        /\ out.type = "no_frame"
        /\ g_pms = hist.test.prev

\* A frame with a changed byte was polled while a valid sample was held.
C9_Witness ==
    /\ pc = "sta"
    /\ hist.test.kind = "corrupt"
    /\ hist.test.prev.valid
    /\ out.type = "no_frame"
    /\ rx = << >>

(***************************************************************************)
(* C10. A correct frame.                                                   *)
(***************************************************************************)
\* C10: for a correct frame of length 28, readPMS5003Frame() reports a frame
\* and the six fields are the big-endian words at body offsets 0, 2, 4 (CF1)
\* and 6, 8, 10 (ATM), with valid set.
C10_CorrectFrameDecoded ==
    (pc = "sta" /\ hist.test.kind = "good") =>
        /\ out.type = "frame_ok"
        /\ g_pms.valid
        /\ g_pms.pm1_cf1  = hist.test.words[1]
        /\ g_pms.pm25_cf1 = hist.test.words[2]
        /\ g_pms.pm10_cf1 = hist.test.words[3]
        /\ g_pms.pm1_atm  = hist.test.words[4]
        /\ g_pms.pm25_atm = hist.test.words[5]
        /\ g_pms.pm10_atm = hist.test.words[6]

\* The frame of readings 258, 772, 1286, 1800, 2314, 2828 (each with two
\* different bytes) replaced an earlier sample.
C10_Witness ==
    /\ pc = "sta"
    /\ hist.test.kind = "good"
    /\ hist.test.words = SampleB
    /\ hist.test.prev.valid
    /\ g_pms.pm25_atm = 2314
    /\ g_pms.ts_ms = now

(***************************************************************************)
(* C11. Resynchronisation.                                                 *)
(***************************************************************************)
\* C11 as claimed: over garbage, a frame with a wrong length field and a
\* well-formed frame, the calls of the decoder never decode more than once,
\* decode nothing before the well-formed frame (a decode leaves no byte of
\* the stream unread), and have decoded exactly once when the bytes are
\* used up.
C11_ExactlyOneDecode ==
    hist.test.kind = "resync" =>
        /\ hist.ndec <= 1
        /\ hist.ndec = 1 => rx = << >>
        /\ rx = << >> => hist.ndec = 1

(***************************************************************************)
(* C12. loadConfig over an image it does not recognise.                    *)
(***************************************************************************)
\* C12 as claimed: after setup() found a sector whose tag is not
\* CONFIG_MAGIC, the record in memory is all-zero except magic = CONFIG_MAGIC
\* and is the persisted one; and the load of the boot after such a boot
\* returns the record the earlier load returned.
C12_RecoveryPersistedAndIdempotent ==
    /\ (pc # "boot" /\ hist.bootFlash.magic # CONFIG_MAGIC) =>
          /\ config = [ZeroConfig EXCEPT !.magic = CONFIG_MAGIC]
          /\ flash = config
    /\ (pc # "boot" /\ hist.boots >= 2 /\ hist.prevLoad.recovered) =>
          config = hist.prevLoad.config

\* C12 amended: after setup() found a sector whose tag is not CONFIG_MAGIC,
\* the record in memory is all-zero except magic = CONFIG_MAGIC and has been
\* handed to the EEPROM library; it is the persisted one if the commit
\* succeeded, and otherwise the sector is as it was or erased; either way the
\* load of the boot after such a boot returns the record the earlier load
\* returned.
C12_RecoveryIdempotentPersistedIfCommitted ==
    /\ (pc # "boot" /\ hist.bootFlash.magic # CONFIG_MAGIC) =>
          /\ config = [ZeroConfig EXCEPT !.magic = CONFIG_MAGIC]
          /\ eeprom.data = config
          /\ hist.loadOk => flash = config
          /\ ~hist.loadOk => flash \in {hist.bootFlash, ErasedImage}
    /\ (pc # "boot" /\ hist.boots >= 2 /\ hist.prevLoad.recovered) =>
          config = hist.prevLoad.config

\* The second boot after a sector of another firmware (its fields set) was
\* recovered and saved: the saved image loaded as it was.
C12_Witness ==
    /\ pc = "http"
    /\ hist.boots = 2
    /\ hist.prevLoad.recovered
    /\ hist.bootFlash = [ZeroConfig EXCEPT !.magic = CONFIG_MAGIC]
    /\ config = hist.bootFlash
    /\ flash = config

(***************************************************************************)
(* C13. The reset.                                                         *)
(***************************************************************************)
\* C13: when handleClear (clearConfig, then loadConfig) has run and both
\* commits succeeded, the record in memory and the persisted image are
\* all-zero except magic = CONFIG_MAGIC.
C13_ResetLeavesZeroRecordWithMagic ==
    (pc = "poll" /\ out.type = "cleared" /\ hist.req.clearOk) =>
        /\ config = [ZeroConfig EXCEPT !.magic = CONFIG_MAGIC]
        /\ flash = [ZeroConfig EXCEPT !.magic = CONFIG_MAGIC]

\* A registered record was reset.
C13_Witness ==
    /\ pc = "poll"
    /\ out.type = "cleared"
    /\ hist.req.clearOk
    /\ hist.req.wasRegistered
    /\ flash = [ZeroConfig EXCEPT !.magic = CONFIG_MAGIC]
    /\ config = flash

(***************************************************************************)
(* C14. A failed commit in saveConfig.                                     *)
(***************************************************************************)
\* C14: when the commit of handleSave's saveConfig has failed, the record in
\* memory is the one handleSave set (with magic = CONFIG_MAGIC), the EEPROM
\* library still holds it as unwritten, and handleSave goes on; and when the
\* next saveConfig (performRegistration's) commits, the sector holds the full
\* current record.
C14_FailedCommitKeepsRecord ==
    /\ (pc = "register" /\ ~hist.commitOk) =>
          /\ config = hist.req.asSet
          /\ config.magic = CONFIG_MAGIC
          /\ eeprom.data = config
          /\ eeprom.dirty
    /\ (pc = "poll" /\ out.type = "saved_ok" /\ ~hist.commitOk
          /\ hist.req.regCommitOk) =>
          /\ flash = config
          /\ ~eeprom.dirty

\* The commit of handleSave's saveConfig failed over a registered record,
\* and the commit of the save after it wrote the record of the new
\* registration.
C14_Witness ==
    /\ pc = "poll"
    /\ out.type = "saved_ok"
    /\ ~hist.commitOk
    /\ hist.req.regCommitOk
    /\ hist.req.wasRegistered
    /\ flash = config
    /\ flash # hist.flashBefore

(***************************************************************************)
(* C15. A failed registration.                                             *)
(***************************************************************************)
\* The user-entered fields are the submitted texts, or what they were where
\* the form carried none.
UserFieldsKept ==
    /\ config.wifi_ssid = hist.req.entered.wifi_ssid
    /\ config.wifi_pass = hist.req.entered.wifi_pass
    /\ config.user_email = hist.req.entered.user_email
    /\ config.device_name = hist.req.entered.device_name
    /\ config.one_time_key = hist.req.entered.one_time_key

\* C15 as claimed: when the registration of a submission has failed, the
\* record in memory, which is also the persisted one, has registration_ok
\* cleared and every derived field empty, and holds the user-entered fields
\* as submitted.
C15_FailedRegistrationKeepsUserFields ==
    (pc = "poll" /\ out.type = "saved_failed") =>
        /\ Wiped(config)
        /\ UserFieldsKept
        /\ flash = config

\* C15 amended: when the registration of a submission has failed, the record
\* in memory has registration_ok cleared and every derived field empty, and
\* holds the user-entered fields as submitted; it is the persisted record if
\* the commit of handleSave's saveConfig succeeded, and otherwise the sector
\* holds the image from before the submission or is erased.
C15_FailedRegistrationKeepsUserFieldsInMemory ==
    (pc = "poll" /\ out.type = "saved_failed") =>
        /\ Wiped(config)
        /\ UserFieldsKept
        /\ eeprom.data = config
        /\ hist.commitOk => flash = config
        /\ ~hist.commitOk => flash \in {hist.flashBefore, ErasedImage}

\* In the network-enabled build a registered device got new network
\* credentials and a key, and the join of performRegistration failed.
C15_Witness ==
    /\ pc = "poll"
    /\ out.type = "saved_failed"
    /\ enableNetwork = 1
    /\ hist.regIssued
    /\ hist.req.wasRegistered
    /\ hist.req.entered.wifi_ssid = Ssid1
    /\ config.wifi_ssid = Ssid1
    /\ config.one_time_key = Key1
    /\ Wiped(config)
    /\ flash = config

(***************************************************************************)
(* C16. The access point stays up.                                         *)
(***************************************************************************)
\* C16: once setup has brought up the access point, the Wi-Fi mode is
\* WIFI_AP or WIFI_AP_STA in every state, whatever joins, broker
\* connections, registrations, submissions and resets have done.
C16_AlwaysAccessPoint ==
    pc # "boot" => wifiMode \in {"WIFI_AP", "WIFI_AP_STA"}

\* In the network-enabled build a submission's registration has failed on
\* its join: the station is down and the mode still includes the access
\* point.
C16_Witness ==
    /\ pc = "poll"
    /\ out.type = "saved_failed"
    /\ enableNetwork = 1
    /\ hist.regIssued
    /\ wifiStatus # "WL_CONNECTED"
    /\ wifiMode = "WIFI_AP_STA"

(***************************************************************************)
(* C17. Attempts never stop.                                               *)
(***************************************************************************)
\* A turn of loop() is about to start and time can still advance by a whole
\* backoff ceiling and one step more.
TimeLeft == pc = "http" /\ now + Ms(65000) <= Ms(5000 * LiveTicks)

StaDown == haveWifiCreds(config) /\ wifiStatus # "WL_CONNECTED"

BrokerDownWithCreds == haveMqttCreds(config) /\ ~mqttConnected

\* C17 as claimed: for each supervisor, whenever its credentials are present
\* and its link is down (and stays down, as it does here) while loop() runs
\* and time advances, a new attempt of it follows.
C17_EachSupervisorRetriesForEver ==
    /\ (TimeLeft /\ StaDown) ~> (out.type = "sta_begin")
    /\ (TimeLeft /\ BrokerDownWithCreds) ~> (out.type = "mqtt_connect")

\* C17 amended: the station supervisor, in either build, and the broker
\* supervisor of the network-enabled build start a new attempt whenever
\* their credentials are present and their link is down and stays down
\* while loop() runs and time advances; the broker supervisor of the
\* stubbed build never starts one.
C17_StationAndNetworkBrokerRetryForEver ==
    /\ (TimeLeft /\ StaDown) ~> (out.type = "sta_begin")
    /\ (TimeLeft /\ BrokerDownWithCreds /\ enableNetwork = 1)
          ~> (out.type = "mqtt_connect")
    /\ [](enableNetwork = 0 => out.type # "mqtt_connect")

\* After 13 failed attempts in a row of each supervisor, with both backoffs
\* at the ceiling, each has started a 14th in this turn of loop().
C17_Witness ==
    /\ enableNetwork = 1
    /\ out.type = "mqtt_connect"
    /\ hist.staRun = 14
    /\ hist.mqttRun = 14
    /\ staBackoffMs = Ms(60000)
    /\ mqttBackoffMs = Ms(60000)
    /\ StaDown
    /\ BrokerDownWithCreds

(***************************************************************************)
(* C18. Every way out of the decoder.                                      *)
(***************************************************************************)
\* The sample a frame of the readings w decodes to at the time of the poll.
SampleOf(w) ==
    [ pm1_cf1 |-> w[1], pm25_cf1 |-> w[2], pm10_cf1 |-> w[3],
      pm1_atm |-> w[4], pm25_atm |-> w[5], pm10_atm |-> w[6],
      ts_ms |-> now, valid |-> TRUE ]

\* C18: a poll that ends in a marker timeout, a length out of bounds, a
\* length or body timeout or a checksum mismatch leaves g_pms (six readings,
\* timestamp, valid flag) as it was; g_pms changes only on a successful
\* decode, and is then the new sample in every field.
C18_FailuresKeepSampleSuccessReplacesIt ==
    pc = "sta" =>
        /\ hist.why = hist.test.kind
        /\ hist.test.kind # "ok" => (out.type = "no_frame" /\ g_pms = hist.test.prev)
        /\ hist.test.kind = "ok" =>
              (out.type = "frame_ok" /\ g_pms = SampleOf(hist.test.words))
        /\ g_pms # hist.test.prev => out.type = "frame_ok"

\* A frame cut short in its body was polled while a valid sample was held,
\* and the sample is still there.
C18_Witness ==
    /\ pc = "sta"
    /\ hist.test.kind = "body_timeout"
    /\ hist.why = "body_timeout"
    /\ out.type = "no_frame"
    /\ hist.test.prev = EarlierSample
    /\ g_pms = EarlierSample
    /\ rx = << >>

(***************************************************************************)
(* C19. copyString.                                                        *)
(***************************************************************************)
\* C19: after copyString of a text of length L into a field of M bytes, the
\* text stored in the field has length min(L, M - 1) and is a prefix of the
\* input, one of the field's M bytes is the terminator, and the bytes next
\* to the field are what they were.
C19_CopyTruncatesInsideField ==
    pc = "copied" =>
        LET src    == hist.test.stream
            before == hist.test.words
            M      == Len(before) - 2
            field  == FieldOf(out.payload)
            stored == CStr(field)
        IN  /\ Len(stored) = Min(Len(src), M - 1)
            /\ stored = SubSeq(src, 1, Len(stored))
            /\ stored = copyString(src, M)
            /\ \E i \in 1..M : field[i] = 0
            /\ Len(out.payload) = Len(before)
            /\ out.payload[1] = before[1]
            /\ out.payload[Len(before)] = before[Len(before)]

\* A text of five characters was copied over an earlier text into a field of
\* three bytes: two characters and the terminator are in the field.
C19_Witness ==
    /\ pc = "copied"
    /\ hist.test.stream = << 97, 98, 98, 97, 98 >>
    /\ FieldOf(hist.test.words) = << 120, 120, 0 >>
    /\ FieldOf(out.payload) = << 97, 98, 0 >>

(***************************************************************************)
(* C20. The header scan.                                                   *)
(***************************************************************************)
\* The first place in s where 0x42 is immediately followed by 0x4D (0 if
\* there is none).
FirstHeader(s) ==
    LET at == { i \in 1..(Len(s) - 1) : s[i] = 66 /\ s[i + 1] = 77 }
    IN  IF at = {} THEN 0 ELSE CHOOSE i \in at : \A k \in at : i <= k

\* C20: whatever bytes precede it, readPMS5003Frame takes as the header the
\* first 0x42 immediately followed by 0x4D in the stream: the byte it reads
\* next is the one after that 0x4D.
C20_HeaderFoundAtFirstMarkerPair ==
    (pc = "sta" /\ hist.test.kind = "seek") =>
        hist.hdr = FirstHeader(hist.test.stream) + 2

(***************************************************************************)
(* C21. Nothing due, nothing done.                                         *)
(***************************************************************************)
\* C21: a call of ensureStaConnected while the station is connected, or
\* while less than staBackoffMs has passed since lastStaAttempt, starts no
\* attempt and leaves lastStaAttempt and staBackoffMs as they were, and the
\* same holds of mqttEnsureConnected and the broker; and neither call
\* changes the other supervisor's last-attempt time or backoff.
C21_NotDueIsNoOp ==
    [][ /\ (pc = "sta" /\ pc' = "mqtt") =>
              /\ (wifiStatus = "WL_CONNECTED"
                    \/ Sub32(now, lastStaAttempt) < staBackoffMs) =>
                    /\ out'.type # "sta_begin"
                    /\ lastStaAttempt' = lastStaAttempt
                    /\ staBackoffMs' = staBackoffMs
              /\ lastMqttConnAttempt' = lastMqttConnAttempt
              /\ mqttBackoffMs' = mqttBackoffMs
        /\ (pc = "mqtt" /\ pc' = "pub") =>
              /\ (mqttConnected
                    \/ Sub32(now, lastMqttConnAttempt) < mqttBackoffMs) =>
                    /\ out'.type # "mqtt_connect"
                    /\ mqttConnected' = mqttConnected
                    /\ lastMqttConnAttempt' = lastMqttConnAttempt
                    /\ mqttBackoffMs' = mqttBackoffMs
              /\ lastStaAttempt' = lastStaAttempt
              /\ staBackoffMs' = staBackoffMs
      ]_vars

\* In the network-enabled build both links are down with credentials
\* present, and in this turn of loop() both supervisors were called before
\* their backoffs had passed: neither attempted.
C21_Witness ==
    /\ pc = "pub"
    /\ enableNetwork = 1
    /\ out.type = "none"
    /\ haveWifiCreds(config) /\ wifiStatus # "WL_CONNECTED"
    /\ haveMqttCreds(config) /\ ~mqttConnected
    /\ lastStaAttempt # now
    /\ lastMqttConnAttempt # now
    /\ staBackoffMs = Ms(15000)
    /\ mqttBackoffMs = Ms(15000)
    /\ Sub32(now, lastStaAttempt) < staBackoffMs
    /\ Sub32(now, lastMqttConnAttempt) < mqttBackoffMs

(***************************************************************************)
(* C22. The length field and the body buffer.                              *)
(***************************************************************************)
\* C22: a frame whose length field, read high byte first, is below 28 or
\* above 64 is rejected with every byte after the length field still unread
\* and the sample as it was; and for a length of 28..64 every index of
\* data[] the decoder writes or reads, the checksum bytes at length - 2 and
\* length - 1 among them, is within 0..63.
C22_LengthBoundsKeepBodyInBuffer ==
    (pc = "sta" /\ hist.test.kind = "length") =>
        LET stream   == hist.test.stream
            frameLen == stream[3] * 256 + stream[4]
        IN  /\ (frameLen < 28 \/ frameLen > 64) =>
                  /\ out.type = "no_frame"
                  /\ hist.why = "length_bounds"
                  /\ rx = SubSeq(stream, 5, Len(stream))
                  /\ g_pms = hist.test.prev
                  /\ hist.touched = {}
            /\ (frameLen >= 28 /\ frameLen <= 64) =>
                  /\ hist.why \in {"body_timeout", "checksum", "ok"}
                  /\ hist.touched \subseteq 0..63
                  /\ hist.why \in {"checksum", "ok"} =>
                        {frameLen - 2, frameLen - 1} \subseteq hist.touched

\* A well-formed frame of the greatest length, 64, was decoded: the decoder
\* went through data[0] to data[63], the last two being the checksum.
C22_Witness ==
    /\ pc = "sta"
    /\ hist.test.kind = "length"
    /\ hist.test.words = << 64 >>
    /\ out.type = "frame_ok"
    /\ hist.touched = 0..63
    /\ rx = << >>

(***************************************************************************)
(* C23. The range and the steps of the backoffs.                           *)
(***************************************************************************)
\* A backoff is a multiple of 5000 ms from 0 to 60000 ms.
BackoffInRange(b) == b >= 0 /\ b <= Ms(60000) /\ b % Ms(5000) = 0

\* A backoff stays, is reset to 0, or grows by 5000 ms up to 60000 ms.
BackoffStep(b, c) == c = b \/ c = 0 \/ c = Min(b + Ms(5000), Ms(60000))

C23_BackoffsStepWithRequests ==
    /\ [](BackoffInRange(staBackoffMs) /\ BackoffInRange(mqttBackoffMs))
    /\ [][/\ IF pc = "http" /\ pc' = "register"
             THEN staBackoffMs' \in {0, Ms(5000)}
             ELSE BackoffStep(staBackoffMs, staBackoffMs')
          /\ BackoffStep(mqttBackoffMs, mqttBackoffMs')]_vars

C24_DueByTrueElapsedTime ==
    [][ hist.test.kind = "wrap" =>
          /\ (pc = "sta" /\ pc' = "mqtt") =>
                ((out'.type = "sta_begin") <=>
                    (/\ haveWifiCreds(config)
                     /\ wifiStatus # "WL_CONNECTED"
                     /\ hist.since.sta >= staBackoffMs))
          /\ (pc = "mqtt" /\ pc' = "pub") =>
                ((out'.type = "mqtt_connect") <=>
                    (/\ enableNetwork = 1
                     /\ haveMqttCreds(config)
                     /\ ~mqttConnected
                     /\ hist.since.mqtt >= mqttBackoffMs))
          /\ (pc = "pub" /\ pc' = "http" /\ enableNetwork = 1) =>
                ((out'.type = "publish") <=>
                    (/\ haveMqttCreds(config)
                     /\ mqttConnected
                     /\ g_pms.valid
                     /\ hist.since.pub >= Ms(20000)))
      ]_vars

\* The station supervisor has just tried again after the wrap, 60000 ms or
\* more after an attempt made before it.
C24_Witness ==
    /\ hist.test.kind = "wrap"
    /\ pc = "mqtt"
    /\ out.type = "sta_begin"
    /\ lastStaAttempt = now
    /\ now < hist.since.staFrom
    /\ Wrap - hist.since.staFrom <= Ms(30000)
    /\ now + (Wrap - hist.since.staFrom) >= Ms(60000)
    /\ staBackoffMs = Ms(60000)

(***************************************************************************)
(* C25. Broker credentials.                                                *)
(***************************************************************************)
\* C25: every call of mqttEnsureConnected that connects and every call of
\* mqttMaybePublish that emits is made with registration_ok = 1 and node_id,
\* mqtt_host, mqtt_port, mqtt_username and mqtt_password set; in particular
\* none is made over a record whose derived fields a submission has wiped.
C25_BrokerUsedOnlyWithCredentials ==
    [][ /\ (pc = "mqtt" /\ out'.type = "mqtt_connect") =>
              (haveMqttCreds(config) /\ ~Wiped(config))
        /\ (pc = "pub" /\ out'.type = "publish") =>
              (haveMqttCreds(config) /\ ~Wiped(config))
      ]_vars

\* In the network-enabled build a registered device took a submission whose
\* registration failed; with the station up, a valid sample held and 20000
\* ms gone since boot, a whole turn of loop() has passed without a broker
\* connect (none was, or is, due to a backoff) and without a publish.
C25_Witness ==
    /\ pc = "http"
    /\ enableNetwork = 1
    /\ out.type = "no_publish"
    /\ hist.preReg
    /\ Wiped(config)
    /\ haveWifiCreds(config)
    /\ wifiStatus = "WL_CONNECTED"
    /\ g_pms.valid
    /\ ~mqttConnected
    /\ mqttBackoffMs = 0
    /\ lastMqttConnAttempt = 0
    /\ Sub32(now, lastMqttPub) >= Ms(20000)

(***************************************************************************)
(* C26. A sample stays valid.                                              *)
(***************************************************************************)
\* No step but a reboot clears g_pms.valid.
ValidStaysUntilReboot ==
    (g_pms.valid /\ pc' # "boot") => g_pms'.valid

\* A call of the network-enabled mqttMaybePublish is made with the broker
\* connected, a valid sample that has been published before, and 20000 ms
\* or more gone since that publish.
RepublishDue ==
    /\ pc = "pub"
    /\ pc' = "http"
    /\ enableNetwork = 1
    /\ mqttConnected
    /\ g_pms.valid
    /\ hist.pubLast >= 0
    /\ ~(Sub32(now, lastMqttPub) < Ms(20000))

Republished ==
    out'.type = "publish" /\ out'.payload = publishPayload(g_pms)

\* C26 as claimed: once set, g_pms.valid stays set in every later state
\* until a reboot, whatever resets and submissions are served; and with the
\* broker connected, a sample already published is published again at every
\* call of mqttMaybePublish made 20000 ms or more after the last publish.
C26_ValidStaysAndConnectedRepublishes ==
    [][ValidStaysUntilReboot /\ (RepublishDue => Republished)]_vars

\* C26 amended: once set, g_pms.valid stays set until a reboot; and with the
\* broker connected and the record still holding the broker credentials, a
\* sample already published is published again at every call of
\* mqttMaybePublish made 20000 ms or more after the last publish, while over
\* a record that a reset has wiped nothing is published, connected or not.
C26_ValidStaysAndRegisteredRepublishes ==
    [][ /\ ValidStaysUntilReboot
        /\ (RepublishDue /\ haveMqttCreds(config)) => Republished
        /\ (RepublishDue /\ ~haveMqttCreds(config)) => out'.type = "no_publish"
      ]_vars

\* The sample published 20000 ms ago, decoded before that publish, has just
\* been published again.
C26_Witness ==
    /\ pc = "http"
    /\ enableNetwork = 1
    /\ out.type = "publish"
    /\ out.payload = publishPayload(g_pms)
    /\ hist.pubPrev >= 0
    /\ hist.pubLast = now
    /\ g_pms.ts_ms < hist.pubPrev
    /\ Sub32(hist.pubLast, hist.pubPrev) >= Ms(20000)

====
